---- MODULE Spec2Model ----
(***************************************************************************)
(* Multi-query plan engine of memova: QueryPlan construction and           *)
(* validation (src/core/query_plan.py) and QueryEngine.execute_plan with   *)
(* its dependency resolver and AI-correction retry loop                    *)
(* (src/core/query_engine.py).                                             *)
(*                                                                         *)
(* Step ids ("q1", "q2", ...) are the numbers 1..MaxSteps.  A candidate    *)
(* plan is built step by step by the caller, handed to the QueryPlan       *)
(* constructor, and a constructed plan is executed once.  The store        *)
(* (db_manager.execute_query) and the corrector                            *)
(* (sql_generator.fix_sql_error) are external: what they return or raise   *)
(* is chosen nondeterministically.                                         *)
(*                                                                         *)
(* Spec is the construction, ordering and execution of a plan with the     *)
(* default max_results; LimitSpec executes plans with a max_results        *)
(* argument; ObserveSpec is a caller reading a plan (get_final_results,    *)
(* to_dict) whose steps are in any status; AskSpec adds the multi-query    *)
(* path of the /ask handler (api/routes.py) after execute_plan returned;   *)
(* ChangeSpec lets the caller replace depends_on of a constructed plan;    *)
(* OrderSpec asks a plan for its order twice; ResolveSpec applies the      *)
(* dependency resolver to one step; ReexecSpec calls execute_plan a second *)
(* time on the plan it returned; TwoCallSpec interleaves two execute_plan  *)
(* calls on two plans.                                                     *)
(*                                                                         *)
(* KeySpec and KeyRaceSpec are the key managers (src/core/                 *)
(* api_key_manager.py, groq_key_manager.py, the same code but for the      *)
(* names): get_current_key and rotate_key on the class-level key list,     *)
(* index and failed set, with one caller and with two threads.             *)
(***************************************************************************)
EXTENDS Integers, Sequences, FiniteSets, TLC

\* ---------------------------------------------------------------- bounds
MaxSteps == 3
MaxEdges == 3
MaxPlanSize == 5
MaxObserved == 2
MaxKeys == 3

\* ------------------------------------------------------ program constants
MAX_SQL_ERROR_RETRIES == 2
MAX_QUERY_RESULTS == 1000

StepIds == 1..MaxSteps

\* Optional[...] values: None is the empty tuple, a set value is a 1-tuple.
None == << >>
Some(x) == << x >>

\* QueryStatus
PENDING == "pending"
EXECUTING == "executing"
COMPLETED == "completed"
FAILED == "failed"

\* A query text is a sequence of fragments: a statement, or the WITH clause
\* the resolver puts in front of one.
Stmt(src, n) == [kind |-> "stmt", src |-> src, n |-> n]
With(ctes) == [kind |-> "with", ctes |-> ctes]
OriginalSql(id) == << Stmt("step", id) >>
CorrectedTexts == { << Stmt("corrected", 0) >> }

\* QueryStep(id=..., sql=..., depends_on=[]) with the dataclass defaults.
QueryStep(id) ==
    [ id |-> id, sql |-> OriginalSql(id), depends_on |-> << >>,
      status |-> PENDING, results |-> None, error |-> None, row_count |-> None ]

VARIABLES
    pc,               \* where the caller / execute_plan stands: "building",
                      \* "rejected" (the constructor raised), "constructed",
                      \* "ordered", "attempt", "db", "fix", "returned", or
                      \* "raised" (an exception left execute_plan)
    queries,          \* plan.queries: the list of QueryStep objects
    final_query_id,   \* the final_query_id given to QueryPlan(...)
    ctor_error,       \* the ValueError raised by QueryPlan(...), or None
    order,            \* what the caller's plan.get_execution_order() returned
    execution_order,  \* execute_plan: positions in queries, in execution order
    idx,              \* execute_plan: position of the for loop in execution_order
    max_retries,      \* execute_plan: Config.MAX_SQL_ERROR_RETRIES as read
    retry_count,      \* execute_plan: retry_count of the current step
    sql,              \* execute_plan: the text handed to the store
    error_message,    \* execute_plan: str(e) inside the except branch
    results_cache,    \* execute_plan: query id -> query_results (a dict)
    max_results,      \* execute_plan: max_results after defaulting
    exec_count,       \* history: calls of execute_query for the step last started
    fix_count,        \* history: calls of fix_sql_error for the step last started
    fix_raised,       \* history: the last fix_sql_error call raised
    final_results,    \* caller: what plan.get_final_results() returned, if called
    snapshots,        \* caller: what its plan.to_dict() calls returned, in order
    response,         \* /ask: the response of the multi-query path, if any
    order_again,      \* caller: what a second get_execution_order() returned
    reexecuted,       \* history: execute_plan was called again on the plan
    parked,           \* the frame and plan of another execute_plan call, if any
    script,           \* what store and corrector answer to each execution of
                      \* each step of this call, if that is fixed in advance
    _all_api_keys,    \* key manager: the loaded keys (class attribute)
    _current_key_index, \* key manager: index of the current key
    _failed_keys,     \* key manager: the set of keys marked failed
    thread            \* key manager: each caller's position and locals

vars == << pc, queries, final_query_id, ctor_error, order, execution_order, idx,
           max_retries, retry_count, sql, error_message, results_cache,
           max_results, exec_count, fix_count, fix_raised,
           final_results, snapshots, response, order_again, reexecuted,
           parked, script, _all_api_keys, _current_key_index, _failed_keys,
           thread >>

\* What the caller of the plan and of the engine keeps.
caller_vars == << final_results, snapshots, response >>

\* The class attributes of a key manager and its callers.
key_vars == << _all_api_keys, _current_key_index, _failed_keys, thread >>

\* What one call of execute_plan on a fresh plan never touches.
other_vars == << order_again, reexecuted, parked, script, key_vars >>

\* One caller, one call, no scripted answers.
SingleCall ==
    /\ order_again = None
    /\ reexecuted = FALSE
    /\ parked = None
    /\ script = None

\* No key manager has loaded keys.
KeysUnloaded ==
    /\ _all_api_keys = << >>
    /\ _current_key_index = 0
    /\ _failed_keys = { }
    /\ thread = << >>

\* ------------------------------------------------------------ sequences
Range(s) == { s[i] : i \in 1..Len(s) }
Ids(qs) == [ i \in 1..Len(qs) |-> qs[i].id ]

RECURSIVE SumLen(_, _)
SumLen(qs, i) == IF i > Len(qs) THEN 0 ELSE Len(qs[i].depends_on) + SumLen(qs, i + 1)

\* ------------------------------------------------- QueryPlan.get_query
\* The position of the first step with that id, 0 for None.
RECURSIVE FirstIndex(_, _, _)
FirstIndex(qs, id, i) ==
    IF i > Len(qs) THEN 0
    ELSE IF qs[i].id = id THEN i ELSE FirstIndex(qs, id, i + 1)

get_query(qs, id) == FirstIndex(qs, id, 1)

RECURSIVE LastIndex(_, _, _)
LastIndex(qs, id, i) ==
    IF i = 0 THEN 0
    ELSE IF qs[i].id = id THEN i ELSE LastIndex(qs, id, i - 1)

\* --------------------------------- QueryPlan._has_circular_dependencies
\* st is the pair of sets the closure visit() updates, with its return
\* value: [visited, rec_stack, ret].
RECURSIVE visit(_, _, _)
RECURSIVE visit_deps(_, _, _, _)

\* visit() that leaves query_id on rec_stack when it returns.
visit_keeps_stack(qs, query_id, st) ==
    IF query_id \in st.rec_stack THEN [st EXCEPT !.ret = TRUE]
    ELSE IF query_id \in st.visited THEN [st EXCEPT !.ret = FALSE]
    ELSE visit_deps(qs, qs[get_query(qs, query_id)].depends_on, 1,
                    [ visited |-> st.visited \cup {query_id},
                      rec_stack |-> st.rec_stack \cup {query_id},
                      ret |-> FALSE ])

visit(qs, query_id, st) ==
    IF query_id \in st.rec_stack THEN [st EXCEPT !.ret = TRUE]
    ELSE IF query_id \in st.visited THEN [st EXCEPT !.ret = FALSE]
    ELSE LET entered == [ visited |-> st.visited \cup {query_id},
                          rec_stack |-> st.rec_stack \cup {query_id},
                          ret |-> FALSE ]
             query == qs[get_query(qs, query_id)]
             after == visit_deps(qs, query.depends_on, 1, entered)
         IN  IF after.ret THEN after
             ELSE [after EXCEPT !.rec_stack = @ \ {query_id}]

visit_deps(qs, deps, i, st) ==
    IF i > Len(deps) THEN [st EXCEPT !.ret = FALSE]
    ELSE LET after == visit(qs, deps[i], st)
         IN  IF after.ret THEN after ELSE visit_deps(qs, deps, i + 1, after)

RECURSIVE check_all_queries(_, _, _)
check_all_queries(qs, i, st) ==
    IF i > Len(qs) THEN FALSE
    ELSE IF qs[i].id \in st.visited THEN check_all_queries(qs, i + 1, st)
    ELSE LET after == visit(qs, qs[i].id, st)
         IN  IF after.ret THEN TRUE ELSE check_all_queries(qs, i + 1, after)

_has_circular_dependencies(qs) ==
    check_all_queries(qs, 1, [visited |-> {}, rec_stack |-> {}, ret |-> FALSE])

\* ------------------------------------------- QueryPlan._validate_plan
\* The ValueError raised, or None when the plan is accepted.
UNIQUE_ERROR == "Query IDs must be unique"
FINAL_ERROR == "Final query ID not found in queries"
DEPENDENCY_ERROR == "Query depends on non-existent query"
CIRCULAR_ERROR == "Circular dependencies detected in query plan"

\* _validate_plan without the check of the final query id.
_validate_plan_no_final_check(qs, final) ==
    LET id_set == Range(Ids(qs))
    IN  IF Len(qs) # Cardinality(id_set) THEN Some(UNIQUE_ERROR)
        ELSE IF \E i \in 1..Len(qs) :
                   \E j \in 1..Len(qs[i].depends_on) :
                       qs[i].depends_on[j] \notin id_set
             THEN Some(DEPENDENCY_ERROR)
        ELSE IF _has_circular_dependencies(qs) THEN Some(CIRCULAR_ERROR)
        ELSE None

_validate_plan(qs, final) ==
    LET ids == Ids(qs)
        id_set == Range(ids)
    IN  IF Len(ids) # Cardinality(id_set) THEN Some(UNIQUE_ERROR)
        ELSE IF final \notin id_set THEN Some(FINAL_ERROR)
        ELSE IF \E i \in 1..Len(qs) :
                   \E j \in 1..Len(qs[i].depends_on) :
                       qs[i].depends_on[j] \notin id_set
             THEN Some(DEPENDENCY_ERROR)
        ELSE IF _has_circular_dependencies(qs) THEN Some(CIRCULAR_ERROR)
        ELSE None

\* ---------------------------------------- QueryPlan.get_execution_order
\* The keys of a dict built from the steps, in insertion order.
RECURSIVE DictKeys(_, _, _)
DictKeys(qs, i, acc) ==
    IF i > Len(qs) THEN acc
    ELSE DictKeys(qs, i + 1,
                  IF qs[i].id \in Range(acc) THEN acc ELSE Append(acc, qs[i].id))

\* dependents: for query in queries, for dep_id in depends_on:
\*                 dependents[dep_id].append(query.id)
RECURSIVE BuildDependents(_, _, _, _)
BuildDependents(qs, i, j, dependents) ==
    IF i > Len(qs) THEN dependents
    ELSE IF j > Len(qs[i].depends_on) THEN BuildDependents(qs, i + 1, 1, dependents)
    ELSE BuildDependents(qs, i, j + 1,
             [dependents EXCEPT ![qs[i].depends_on[j]] = Append(@, qs[i].id)])

\* The for loop over dependents[query_id] inside the while loop; k is the
\* state [in_degree, queue].
\* The loop without "if in_degree[dependent_id] == 0".
RECURSIVE ReduceInDegree_unchecked(_, _, _)
ReduceInDegree_unchecked(deps, j, k) ==
    IF j > Len(deps) THEN k
    ELSE ReduceInDegree_unchecked(deps, j + 1,
             [ in_degree |-> [k.in_degree EXCEPT ![deps[j]] = @ - 1],
               queue |-> Append(k.queue, deps[j]) ])

RECURSIVE ReduceInDegree(_, _, _)
ReduceInDegree(deps, j, k) ==
    IF j > Len(deps) THEN k
    ELSE LET d == deps[j]
             degree == k.in_degree[d] - 1
         IN  ReduceInDegree(deps, j + 1,
                 [ in_degree |-> [k.in_degree EXCEPT ![d] = degree],
                   queue |-> IF degree = 0 THEN Append(k.queue, d) ELSE k.queue ])

RECURSIVE KahnLoop(_, _, _, _)
KahnLoop(qs, dependents, k, out) ==
    IF k.queue = << >> THEN out
    ELSE LET query_id == Head(k.queue)
             popped == [k EXCEPT !.queue = Tail(@)]
         IN  KahnLoop(qs, dependents,
                      ReduceInDegree(dependents[query_id], 1, popped),
                      Append(out, get_query(qs, query_id)))

\* The steps in the order of the list, whatever they depend on.
get_execution_order_as_listed(qs) == [ p \in 1..Len(qs) |-> p ]

\* Returns the positions in qs of the steps, in execution order.
get_execution_order(qs) ==
    LET keys == DictKeys(qs, 1, << >>)
        key_set == Range(keys)
        dependents == BuildDependents(qs, 1, 1, [id \in key_set |-> << >>])
        in_degree == [id \in key_set |-> Len(qs[LastIndex(qs, id, Len(qs))].depends_on)]
        queue == SelectSeq(keys, LAMBDA id : in_degree[id] = 0)
    IN  KahnLoop(qs, dependents, [in_degree |-> in_degree, queue |-> queue], << >>)

\* ------------------------------------- QueryPlan: reading the plan
\* get_final_results without the test of the status.
get_final_results_any_status(qs, final) ==
    LET final_query == get_query(qs, final[1])
    IN  IF final_query # 0 THEN qs[final_query].results ELSE None

\* The results of the final query if it is completed, else None.
get_final_results(qs, final) ==
    LET final_query == get_query(qs, final[1])
    IN  IF final_query # 0 /\ qs[final_query].status = COMPLETED
        THEN qs[final_query].results
        ELSE None

\* any(...) in place of all(...).
is_complete_any(qs) == \E p \in 1..Len(qs) : qs[p].status = COMPLETED

is_complete(qs) == \A p \in 1..Len(qs) : qs[p].status = COMPLETED

has_errors(qs) == \E p \in 1..Len(qs) : qs[p].status = FAILED

\* QueryStep.to_dict: the fields of the step, the status by its value.
QueryStep_to_dict(q) ==
    [ id |-> q.id, sql |-> q.sql, depends_on |-> q.depends_on,
      status |-> q.status, row_count |-> q.row_count, error |-> q.error,
      results |-> q.results ]

\* QueryPlan.to_dict
to_dict(qs, final) ==
    [ queries |-> [ p \in 1..Len(qs) |-> QueryStep_to_dict(qs[p]) ],
      final_query_id |-> final,
      is_complete |-> is_complete(qs),
      has_errors |-> has_errors(qs) ]

\* ------------------------------------------------ the external store
\* Python values in a result row.
PyNone == [kind |-> "none", chars |-> << >>]
PyStr(chars) == [kind |-> "str", chars |-> chars]
PyInt(chars) == [kind |-> "int", chars |-> chars]

\* A result row is a dict: its (key, value) items in column order.
Item(key, value) == [key |-> key, value |-> value]
StoreRows ==
    << << Item("name", PyStr(<< "o", "'", "k" >>)), Item("total", PyInt(<< "4", "2" >>)) >>,
       << Item("name", PyNone), Item("total", PyInt(<< "7" >>)) >> >>

\* What execute_query may return: no row, or the rows above.
RawResults == { << >>, StoreRows }

\* What execute_query may raise, by the patterns str(e).lower() contains.
ErrorMessages ==
    { "no such column: x", "database is locked",
      "disk i/o error near line 1", "connection reset by peer" }

PatternsIn(error_lower) ==
    CASE error_lower = "no such column: x"          -> {"no such column"}
      [] error_lower = "database is locked"         -> {"database is locked"}
      [] error_lower = "disk i/o error near line 1" -> {"disk i/o error", "near"}
      [] OTHER                                      -> {}

\* ------------------------------------- QueryEngine._is_retryable_error
retryable_patterns ==
    { "ambiguous column", "no such column", "no such table", "syntax error",
      "near", "join", "type mismatch", "datatype mismatch", "invalid",
      "only execute one statement", "multiple statements" }

non_retryable_patterns ==
    { "permission denied", "database is locked", "disk i/o error",
      "out of memory", "database disk image is malformed" }

\* The retryable patterns checked first.
_is_retryable_error_retryable_first(message) ==
    IF \E pattern \in retryable_patterns : pattern \in PatternsIn(message)
    THEN TRUE
    ELSE FALSE

_is_retryable_error(message) ==
    IF \E pattern \in non_retryable_patterns : pattern \in PatternsIn(message)
    THEN FALSE
    ELSE IF \E pattern \in retryable_patterns : pattern \in PatternsIn(message)
    THEN TRUE
    ELSE FALSE

\* ------------------------------------ QueryEngine._resolve_dependencies
\* One formatted value of a SELECT: NULL, a quoted text with its quotes
\* doubled, or str(val).
RECURSIVE EscapeQuotes(_)
EscapeQuotes(chars) ==
    IF chars = << >> THEN << >>
    ELSE (IF Head(chars) = "'" THEN << "'", "'" >> ELSE << Head(chars) >>)
         \o EscapeQuotes(Tail(chars))

\* The text quoted without doubling the quotes inside it.
FormatValue_unescaped(val) ==
    IF val.kind = "none" THEN << "N", "U", "L", "L" >>
    ELSE IF val.kind = "str" THEN << "'" >> \o val.chars \o << "'" >>
    ELSE val.chars

FormatValue(val) ==
    IF val.kind = "none" THEN << "N", "U", "L", "L" >>
    ELSE IF val.kind = "str" THEN << "'" >> \o EscapeQuotes(val.chars) \o << "'" >>
    ELSE val.chars

\* "SELECT v1, v2, ..." of one row.
SelectOf(row) == [ j \in 1..Len(row) |-> FormatValue(row[j]) ]

\* "dep_id(columns) AS (SELECT ... UNION ALL SELECT ...)"
CteOf(dep_id, dep_results) ==
    [ name |-> dep_id,
      columns |-> dep_results.columns,
      selects |-> [ r \in 1..Len(dep_results.rows) |-> SelectOf(dep_results.rows[r]) ] ]

\* The for loop over query.depends_on building the list ctes.
RECURSIVE BuildCtes(_, _, _, _)
BuildCtes(depends_on, j, cache, ctes) ==
    IF j > Len(depends_on) THEN ctes
    ELSE LET dep_id == depends_on[j]
         IN  IF dep_id \notin DOMAIN cache
             THEN BuildCtes(depends_on, j + 1, cache, ctes)
             ELSE IF cache[dep_id].rows # << >>
             THEN BuildCtes(depends_on, j + 1, cache,
                            Append(ctes, CteOf(dep_id, cache[dep_id])))
             ELSE BuildCtes(depends_on, j + 1, cache, ctes)

_resolve_dependencies(query, cache) ==
    IF query.depends_on = << >> THEN query.sql
    ELSE LET ctes == BuildCtes(query.depends_on, 1, cache, << >>)
         IN  IF ctes # << >> THEN << With(ctes) >> \o query.sql ELSE query.sql

\* ------------------------------------------------------ the caller
\* What the caller may pass as max_results; 0 stands for None.
MaxResultsArgs == { 0 }

Init ==
    /\ pc = "building"
    /\ queries = << >>
    /\ final_query_id = None
    /\ ctor_error = None
    /\ order = << >>
    /\ execution_order = << >>
    /\ idx = 0
    /\ max_retries = 0
    /\ retry_count = 0
    /\ sql = None
    /\ error_message = None
    /\ results_cache = << >>
    /\ max_results = 0
    /\ exec_count = 0
    /\ fix_count = 0
    /\ fix_raised = FALSE
    /\ final_results = None
    /\ snapshots = << >>
    /\ response = None
    /\ SingleCall
    /\ KeysUnloaded

engine_vars == << execution_order, idx, max_retries, retry_count, sql,
                  error_message, results_cache, max_results, exec_count,
                  fix_count, fix_raised >>

\* The caller appends QueryStep(id=...) to the list it will pass.  Ids are
\* opaque names: a new name is the next unused number.
AddStep(id) ==
    /\ pc = "building"
    /\ Len(queries) < MaxSteps
    /\ id <= Cardinality(Range(Ids(queries))) + 1
    /\ queries' = Append(queries, QueryStep(id))
    /\ UNCHANGED << pc, final_query_id, ctor_error, order, engine_vars, caller_vars, other_vars >>

\* The caller appends an id to depends_on of the step it added last.
AddDependency(dep_id) ==
    /\ pc = "building"
    /\ queries # << >>
    /\ SumLen(queries, 1) < MaxEdges
    /\ queries' = [queries EXCEPT ![Len(queries)].depends_on = Append(@, dep_id)]
    /\ UNCHANGED << pc, final_query_id, ctor_error, order, engine_vars, caller_vars, other_vars >>

\* QueryPlan(queries=..., final_query_id=final): __post_init__ validates
\* and either raises ValueError or leaves the constructed plan.
Construct(final) ==
    /\ pc = "building"
    /\ ctor_error' = _validate_plan(queries, final)
    /\ pc' = IF ctor_error' = None THEN "constructed" ELSE "rejected"
    /\ final_query_id' = Some(final)
    /\ UNCHANGED << queries, order, engine_vars, caller_vars, other_vars >>

\* An ordering that removes the edges it has followed from the plan itself.
GetExecutionOrder_consumes_edges ==
    /\ pc = "constructed"
    /\ order' = get_execution_order(queries)
    /\ queries' = [ p \in 1..Len(queries) |-> [ queries[p] EXCEPT !.depends_on = << >> ] ]
    /\ pc' = "ordered"
    /\ UNCHANGED << final_query_id, ctor_error, engine_vars, caller_vars, other_vars >>

\* The caller asks a constructed plan for its execution order.
GetExecutionOrder ==
    /\ pc = "constructed"
    /\ order' = get_execution_order(queries)
    /\ pc' = "ordered"
    /\ UNCHANGED << queries, final_query_id, ctor_error, engine_vars, caller_vars, other_vars >>

\* ------------------------------------------- QueryEngine.execute_plan
\* The position in queries of the step the for loop is at.
Current == execution_order[idx]

\* The head of the for loop: the next step, or the return after the loop.
ForLoopNext ==
    IF idx < Len(execution_order)
    THEN /\ idx' = idx + 1
         /\ retry_count' = 0
         /\ sql' = None
         /\ pc' = "attempt"
    ELSE /\ pc' = "returned"
         /\ UNCHANGED << idx, retry_count, sql >>

\* The call: defaults, the execution order, the empty cache, the first step.
ExecutePlan(budget, m) ==
    /\ pc = "constructed"
    /\ Len(queries) + SumLen(queries, 1) <= MaxPlanSize
    /\ max_results' = IF m # 0 THEN m ELSE MAX_QUERY_RESULTS
    /\ max_retries' = budget
    /\ execution_order' = get_execution_order(queries)
    /\ results_cache' = << >>
    /\ exec_count' = 0
    /\ fix_count' = 0
    /\ IF execution_order' # << >>
       THEN /\ idx' = 1
            /\ pc' = "attempt"
       ELSE /\ idx' = 0
            /\ pc' = "returned"
    /\ retry_count' = 0
    /\ sql' = None
    /\ UNCHANGED << queries, final_query_id, ctor_error, order, caller_vars, other_vars, error_message,
                    fix_raised >>

\* A loop that resolves the dependencies at every attempt.
WhileHead_resolves_always ==
    /\ pc = "attempt"
    /\ IF retry_count <= max_retries
       THEN /\ queries' = [queries EXCEPT ![Current].status = EXECUTING]
            /\ sql' = _resolve_dependencies(queries[Current], results_cache)
            /\ exec_count' = IF retry_count = 0 THEN 1 ELSE exec_count + 1
            /\ fix_count' = IF retry_count = 0 THEN 0 ELSE fix_count
            /\ pc' = "db"
            /\ UNCHANGED << idx, retry_count >>
       ELSE /\ IF queries[Current].status = FAILED
               THEN /\ pc' = "returned"
                    /\ UNCHANGED << idx, retry_count, sql >>
               ELSE ForLoopNext
            /\ UNCHANGED << queries, exec_count, fix_count >>
    /\ UNCHANGED << final_query_id, ctor_error, order, caller_vars, other_vars, execution_order, max_retries,
                    error_message, results_cache, max_results, fix_raised >>

\* The while condition, then the try block up to the call of
\* db_manager.execute_query; a false condition leaves the loop with the
\* step as it is, and the for loop goes on unless the step is failed.
WhileHead ==
    /\ pc = "attempt"
    /\ IF retry_count <= max_retries
       THEN /\ queries' = [queries EXCEPT ![Current].status = EXECUTING]
            /\ sql' = IF retry_count = 0
                      THEN _resolve_dependencies(queries[Current], results_cache)
                      ELSE sql
            /\ exec_count' = IF retry_count = 0 THEN 1 ELSE exec_count + 1
            /\ fix_count' = IF retry_count = 0 THEN 0 ELSE fix_count
            /\ pc' = "db"
            /\ UNCHANGED << idx, retry_count >>
       ELSE /\ IF queries[Current].status = FAILED
               THEN /\ pc' = "returned"
                    /\ UNCHANGED << idx, retry_count, sql >>
               ELSE ForLoopNext
            /\ UNCHANGED << queries, exec_count, fix_count >>
    /\ UNCHANGED << final_query_id, ctor_error, order, caller_vars, other_vars, execution_order, max_retries,
                    error_message, results_cache, max_results, fix_raised >>

\* The rows of every query truncated, not only those of the final one.
QueryResults_every_query(raw_results, query_id) ==
    LET columns == IF raw_results # << >>
                   THEN [ j \in 1..Len(raw_results[1]) |-> raw_results[1][j].key ]
                   ELSE << >>
        rows == [ r \in 1..Len(raw_results) |->
                    [ j \in 1..Len(raw_results[r]) |-> raw_results[r][j].value ] ]
    IN  [ columns |-> columns,
          rows |-> IF Len(rows) > max_results
                   THEN SubSeq(rows, 1, max_results)
                   ELSE rows ]

\* query_results of the rows the store returned, truncated for the final query.
QueryResults(raw_results, query_id) ==
    LET columns == IF raw_results # << >>
                   THEN [ j \in 1..Len(raw_results[1]) |-> raw_results[1][j].key ]
                   ELSE << >>
        rows == [ r \in 1..Len(raw_results) |->
                    [ j \in 1..Len(raw_results[r]) |-> raw_results[r][j].value ] ]
    IN  [ columns |-> columns,
          rows |-> IF Some(query_id) = final_query_id /\ Len(rows) > max_results
                   THEN SubSeq(rows, 1, max_results)
                   ELSE rows ]

\* The completed step is not put into results_cache.
StoreReturns_skips_cache(raw_results) ==
    /\ pc = "db"
    /\ LET query_results == QueryResults(raw_results, queries[Current].id)
       IN  queries' = [queries EXCEPT ![Current].status = COMPLETED,
                                      ![Current].results = Some(query_results),
                                      ![Current].row_count = Some(Len(query_results.rows))]
    /\ ForLoopNext
    /\ UNCHANGED << final_query_id, ctor_error, order, caller_vars, other_vars, execution_order,
                    max_retries, error_message, results_cache, max_results,
                    exec_count, fix_count, fix_raised >>

\* A success after a correction leaves the for loop.
StoreReturns_stops_after_retry(raw_results) ==
    /\ pc = "db"
    /\ LET query_results == QueryResults(raw_results, queries[Current].id)
       IN  /\ queries' = [queries EXCEPT ![Current].status = COMPLETED,
                                         ![Current].results = Some(query_results),
                                         ![Current].row_count = Some(Len(query_results.rows))]
           /\ results_cache' =
                 [ id \in DOMAIN results_cache \cup {queries[Current].id} |->
                     IF id = queries[Current].id THEN query_results
                     ELSE results_cache[id] ]
    /\ IF retry_count > 0
       THEN pc' = "returned" /\ UNCHANGED << idx, retry_count, sql >>
       ELSE ForLoopNext
    /\ UNCHANGED << final_query_id, ctor_error, order, caller_vars, other_vars, execution_order,
                    max_retries, error_message, max_results, exec_count, fix_count,
                    fix_raised >>

\* execute_query returns: the step is completed and cached, the loop goes on.
StoreReturns(raw_results) ==
    /\ pc = "db"
    /\ LET query_results == QueryResults(raw_results, queries[Current].id)
       IN  /\ queries' = [queries EXCEPT ![Current].status = COMPLETED,
                                         ![Current].results = Some(query_results),
                                         ![Current].row_count = Some(Len(query_results.rows))]
           /\ results_cache' =
                 [ id \in DOMAIN results_cache \cup {queries[Current].id} |->
                     IF id = queries[Current].id THEN query_results
                     ELSE results_cache[id] ]
    /\ ForLoopNext
    /\ UNCHANGED << final_query_id, ctor_error, order, caller_vars, other_vars, execution_order, max_retries,
                    error_message, max_results, exec_count, fix_count, fix_raised >>

\* Variants of the except branch: may_retry stands for the condition of
\* line 444, error_on_retry for setting query.error before a retry, and
\* break_on_failure for leaving the for loop once the step is failed.
StoreRaisesVariant(message, may_retry, error_on_retry, break_on_failure) ==
    /\ pc = "db"
    /\ error_message' = Some(message)
    /\ IF may_retry
       THEN /\ retry_count' = retry_count + 1
            /\ fix_count' = fix_count + 1
            /\ pc' = "fix"
            /\ queries' = IF error_on_retry
                          THEN [queries EXCEPT ![Current].error = Some(message)]
                          ELSE queries
            /\ UNCHANGED << idx, sql >>
       ELSE /\ queries' = [queries EXCEPT ![Current].status = FAILED,
                                          ![Current].error = Some(message)]
            /\ IF break_on_failure
               THEN pc' = "returned" /\ UNCHANGED << idx, retry_count, sql >>
               ELSE ForLoopNext
            /\ UNCHANGED fix_count
    /\ UNCHANGED << final_query_id, ctor_error, order, caller_vars, other_vars, execution_order, max_retries,
                    results_cache, max_results, exec_count, fix_raised >>

\* "retry_count <= max_retries" in the except branch.
StoreRaises_retries_at_limit(message) ==
    StoreRaisesVariant(message,
        retry_count <= max_retries /\ _is_retryable_error(message), FALSE, TRUE)

\* One correction fewer than the budget.
StoreRaises_short_budget(message) ==
    StoreRaisesVariant(message,
        retry_count + 1 < max_retries /\ _is_retryable_error(message), FALSE, TRUE)

\* No "if query.status == FAILED: break" after the while loop.
StoreRaises_no_break(message) ==
    StoreRaisesVariant(message,
        retry_count < max_retries /\ _is_retryable_error(message), FALSE, FALSE)

\* query.error set before the retry is decided.
StoreRaises_records_error(message) ==
    StoreRaisesVariant(message,
        retry_count < max_retries /\ _is_retryable_error(message), TRUE, TRUE)

\* The step marked failed before the retry is decided.
StoreRaises_fails_before_retry(message) ==
    /\ pc = "db"
    /\ error_message' = Some(message)
    /\ queries' = [queries EXCEPT ![Current].status = FAILED,
                                  ![Current].error = Some(message)]
    /\ IF retry_count < max_retries /\ _is_retryable_error(message)
       THEN /\ retry_count' = retry_count + 1
            /\ fix_count' = fix_count + 1
            /\ pc' = "fix"
       ELSE /\ pc' = "returned"
            /\ UNCHANGED << retry_count, fix_count >>
    /\ UNCHANGED << final_query_id, ctor_error, order, caller_vars, other_vars, execution_order,
                    idx, max_retries, sql, results_cache, max_results, exec_count,
                    fix_raised >>

\* No "retry_count < max_retries" in the except branch.
StoreRaises_ignores_budget(message) ==
    StoreRaisesVariant(message, _is_retryable_error(message), FALSE, TRUE)

\* execute_query raises: the except branch up to the call of fix_sql_error,
\* or to the step marked failed and the plan returned.
StoreRaises(message) ==
    /\ pc = "db"
    /\ error_message' = Some(message)
    /\ IF retry_count < max_retries /\ _is_retryable_error(message)
       THEN /\ retry_count' = retry_count + 1
            /\ fix_count' = fix_count + 1
            /\ pc' = "fix"
            /\ UNCHANGED queries
       ELSE /\ queries' = [queries EXCEPT ![Current].status = FAILED,
                                          ![Current].error = Some(message)]
            /\ pc' = "returned"
            /\ UNCHANGED << retry_count, fix_count >>
    /\ UNCHANGED << final_query_id, ctor_error, order, caller_vars, other_vars, execution_order, idx, max_retries,
                    sql, results_cache, max_results, exec_count, fix_raised >>

\* fix_sql_error returns a text: it replaces the step's sql and is retried.
CorrectorReturns(corrected_sql) ==
    /\ pc = "fix"
    /\ sql' = corrected_sql
    /\ queries' = [queries EXCEPT ![Current].sql = corrected_sql]
    /\ pc' = "attempt"
    /\ UNCHANGED << final_query_id, ctor_error, order, caller_vars, other_vars, execution_order, idx, max_retries,
                    retry_count, error_message, results_cache, max_results,
                    exec_count, fix_count, fix_raised >>

\* No try/except around fix_sql_error: its exception leaves execute_plan.
CorrectorRaises_propagates ==
    /\ pc = "fix"
    /\ fix_raised' = TRUE
    /\ pc' = "raised"
    /\ UNCHANGED << queries, final_query_id, ctor_error, order, caller_vars, other_vars, execution_order, idx,
                    max_retries, retry_count, sql, error_message, results_cache,
                    max_results, exec_count, fix_count >>

\* The inner except branch goes round the while loop once more.
CorrectorRaises_tries_again ==
    /\ pc = "fix"
    /\ fix_raised' = TRUE
    /\ pc' = "attempt"
    /\ UNCHANGED << queries, final_query_id, ctor_error, order, caller_vars, other_vars,
                    execution_order, idx, max_retries, retry_count, sql,
                    error_message, results_cache, max_results, exec_count, fix_count >>

\* fix_sql_error raises: the step is marked failed with the store's message.
CorrectorRaises ==
    /\ pc = "fix"
    /\ queries' = [queries EXCEPT ![Current].status = FAILED,
                                  ![Current].error = error_message]
    /\ fix_raised' = TRUE
    /\ pc' = "returned"
    /\ UNCHANGED << final_query_id, ctor_error, order, caller_vars, other_vars, execution_order, idx, max_retries,
                    retry_count, sql, error_message, results_cache, max_results,
                    exec_count, fix_count >>

Next ==
    \/ \E id \in StepIds : AddStep(id)
    \/ \E dep_id \in StepIds : AddDependency(dep_id)
    \/ \E final \in StepIds : Construct(final)
    \/ GetExecutionOrder
    \/ \E budget \in 0..MAX_SQL_ERROR_RETRIES : \E m \in MaxResultsArgs : ExecutePlan(budget, m)
    \/ WhileHead
    \/ \E raw_results \in RawResults : StoreReturns(raw_results)
    \/ \E message \in ErrorMessages : StoreRaises(message)
    \/ \E corrected_sql \in CorrectedTexts : CorrectorReturns(corrected_sql)
    \/ CorrectorRaises

Spec == Init /\ [][Next]_vars

\* A step of execute_plan once it is called: of its loop, of the store or
\* of the corrector.
ExecStep ==
    \/ WhileHead
    \/ \E raw_results \in RawResults : StoreReturns(raw_results)
    \/ \E message \in ErrorMessages : StoreRaises(message)
    \/ \E corrected_sql \in CorrectedTexts : CorrectorReturns(corrected_sql)
    \/ CorrectorRaises

\* ------------------------------- execute_plan(plan, max_results=m)
\* The limits a caller passes: one that cuts the rows of the store and one
\* that equals their number.
MaxResultsLimits == { 1, 2 }

\* Plans executed with a limit, under a budget of one correction.
LimitNext ==
    \/ \E id \in StepIds : AddStep(id)
    \/ \E dep_id \in StepIds : AddDependency(dep_id)
    \/ \E final \in StepIds : Construct(final)
    \/ \E m \in MaxResultsLimits : ExecutePlan(1, m)
    \/ WhileHead
    \/ \E raw_results \in RawResults : StoreReturns(raw_results)
    \/ \E message \in ErrorMessages : StoreRaises(message)
    \/ \E corrected_sql \in CorrectedTexts : CorrectorReturns(corrected_sql)
    \/ CorrectorRaises

LimitSpec == Init /\ [][LimitNext]_vars

\* ------------------------------------------- the caller reading a plan
\* The caller holds a plan of up to MaxObserved steps, each depending on
\* the one before it, whose steps have any status and any results (set by
\* an execute_plan call or by the caller: the fields are public), and calls
\* the reading methods of the plan.
FieldValues ==
    { [ status |-> st, results |-> r ] :
        st \in { PENDING, EXECUTING, COMPLETED, FAILED },
        r \in { None } \cup { Some(QueryResults(raw, 0)) : raw \in RawResults } }

ObserveInit ==
    /\ pc = "observing"
    /\ max_results = MAX_QUERY_RESULTS
    /\ \E n \in 1..MaxObserved :
          /\ \E final \in 1..n : final_query_id = Some(final)
          /\ \E f \in [ 1..n -> FieldValues ] :
                queries =
                   [ p \in 1..n |->
                       [ QueryStep(p) EXCEPT
                           !.depends_on = IF p > 1 THEN << p - 1 >> ELSE << >>,
                           !.status = f[p].status,
                           !.results = f[p].results,
                           !.row_count = IF f[p].results = None THEN None
                                         ELSE Some(Len(f[p].results[1].rows)),
                           !.error = IF f[p].status = FAILED
                                     THEN Some("no such column: x") ELSE None ] ]
    /\ ctor_error = None
    /\ order = << >>
    /\ execution_order = << >>
    /\ idx = 0
    /\ max_retries = 0
    /\ retry_count = 0
    /\ sql = None
    /\ error_message = None
    /\ results_cache = << >>
    /\ exec_count = 0
    /\ fix_count = 0
    /\ fix_raised = FALSE
    /\ final_results = None
    /\ snapshots = << >>
    /\ response = None
    /\ SingleCall
    /\ KeysUnloaded

\* plan.get_final_results(): the caller keeps what it returned.
GetFinalResults ==
    /\ pc = "observing"
    /\ final_results = None
    /\ final_results' = Some(get_final_results(queries, final_query_id))
    /\ UNCHANGED << pc, queries, final_query_id, ctor_error, order, engine_vars,
                    snapshots, response, other_vars >>

\* to_dict that hands its results over: the step keeps none.
ToDict_moves_results ==
    /\ pc = "observing"
    /\ Len(snapshots) < 2
    /\ snapshots' = Append(snapshots, to_dict(queries, final_query_id))
    /\ queries' = [ p \in 1..Len(queries) |-> [ queries[p] EXCEPT !.results = None ] ]
    /\ UNCHANGED << pc, final_query_id, ctor_error, order, engine_vars,
                    final_results, response, other_vars >>

\* plan.to_dict(): the caller keeps the snapshots of its first two calls.
ToDict ==
    /\ pc = "observing"
    /\ Len(snapshots) < 2
    /\ snapshots' = Append(snapshots, to_dict(queries, final_query_id))
    /\ UNCHANGED << pc, queries, final_query_id, ctor_error, order, engine_vars,
                    final_results, response, other_vars >>

ObserveNext ==
    \/ GetFinalResults
    \/ ToDict

ObserveSpec == ObserveInit /\ [][ObserveNext]_vars

\* ------------------------------------- /ask: the multi-query path
\* QueryPlanModel(...) as the handler builds it from the executed plan.
QueryPlanModel(qs, final) ==
    [ queries |-> [ p \in 1..Len(qs) |->
                      [ id |-> qs[p].id, sql |-> qs[p].sql,
                        depends_on |-> qs[p].depends_on, status |-> qs[p].status,
                        row_count |-> qs[p].row_count, error |-> qs[p].error,
                        results |-> qs[p].results ] ],
      final_query_id |-> final,
      is_complete |-> is_complete(qs),
      has_errors |-> has_errors(qs) ]

\* The plan the generator produced has been executed: the handler reads the
\* final results and raises HTTPException(500) if there are none, else it
\* answers with the final columns and rows and the plan (the summarizer and
\* the chart and trend detectors, which come between, return).
AskQuery ==
    /\ pc = "returned"
    /\ final_results' = Some(get_final_results(queries, final_query_id))
    /\ response' =
          IF final_results'[1] = None
          THEN Some([ status_code |-> 500,
                      detail |-> "Multi-query plan execution failed to produce results" ])
          ELSE Some([ status_code |-> 200,
                      columns |-> final_results'[1][1].columns,
                      rows |-> final_results'[1][1].rows,
                      sql |-> queries[get_query(queries, final_query_id[1])].sql,
                      query_plan |-> QueryPlanModel(queries, final_query_id) ])
    /\ pc' = "responded"
    /\ UNCHANGED << queries, final_query_id, ctor_error, order, engine_vars, snapshots,
                    other_vars >>

AskNext ==
    \/ Next
    \/ AskQuery

AskSpec == Init /\ [][AskNext]_vars

\* --------------------------- a plan changed after its construction
\* depends_on is a public list of the step: the caller of a constructed
\* plan replaces it (by ids of steps of the plan); nothing validates again.
SetDependsOn(p, deps) ==
    /\ pc = "constructed"
    /\ p \in 1..Len(queries)
    /\ \A j \in 1..Len(deps) : deps[j] \in Range(Ids(queries))
    /\ queries' = [queries EXCEPT ![p].depends_on = deps]
    /\ UNCHANGED << pc, final_query_id, ctor_error, order, engine_vars, caller_vars, other_vars >>

ChangeNext ==
    \/ \E id \in StepIds : AddStep(id)
    \/ \E dep_id \in StepIds : AddDependency(dep_id)
    \/ \E final \in StepIds : Construct(final)
    \/ \E p \in StepIds : \E deps \in { << >> } \cup { << d >> : d \in StepIds } :
          SetDependsOn(p, deps)
    \/ GetExecutionOrder

ChangeSpec == Init /\ [][ChangeNext]_vars

\* ------------------------------- the resolver applied to one step
\* Rows with a repeated row, besides those of the store above.
RepeatedRows == << StoreRows[1], StoreRows[1] >>

\* The results two completed steps may hold.
CachedResults == { QueryResults(raw, 0) : raw \in RawResults \cup { RepeatedRows } }

\* Steps 1 and 2 are completed and cached; step 3 lists any of them, in any
\* order and number up to two, and is about to be resolved.
ResolveInit ==
    /\ pc = "resolving"
    /\ max_results = MAX_QUERY_RESULTS
    /\ final_query_id = Some(3)
    /\ results_cache \in [ { 1, 2 } -> CachedResults ]
    /\ \E deps \in { << >> } \cup { << a >> : a \in { 1, 2 } }
                   \cup { << a, b >> : a \in { 1, 2 }, b \in { 1, 2 } } :
          queries =
             [ p \in 1..3 |->
                 IF p = 3 THEN [ QueryStep(3) EXCEPT !.depends_on = deps ]
                 ELSE [ QueryStep(p) EXCEPT
                          !.status = COMPLETED,
                          !.results = Some(results_cache[p]),
                          !.row_count = Some(Len(results_cache[p].rows)) ] ]
    /\ ctor_error = None
    /\ order = << >>
    /\ execution_order = << 1, 2, 3 >>
    /\ idx = 3
    /\ max_retries = MAX_SQL_ERROR_RETRIES
    /\ retry_count = 0
    /\ sql = None
    /\ error_message = None
    /\ exec_count = 0
    /\ fix_count = 0
    /\ fix_raised = FALSE
    /\ final_results = None
    /\ snapshots = << >>
    /\ response = None
    /\ SingleCall
    /\ KeysUnloaded

\* sql = self._resolve_dependencies(query, results_cache)
ResolveDependencies ==
    /\ pc = "resolving"
    /\ sql' = _resolve_dependencies(queries[Current], results_cache)
    /\ pc' = "resolved"
    /\ UNCHANGED << queries, final_query_id, ctor_error, order, caller_vars, other_vars,
                    execution_order, idx, max_retries, retry_count, error_message,
                    results_cache, max_results, exec_count, fix_count, fix_raised >>

ResolveNext == ResolveDependencies

ResolveSpec == ResolveInit /\ [][ResolveNext]_vars

\* ------------------------------ asking for the order a second time
\* The caller asks the same, unchanged plan for its execution order again.
GetExecutionOrderAgain ==
    /\ pc = "ordered"
    /\ order_again = None
    /\ order_again' = Some(get_execution_order(queries))
    /\ UNCHANGED << pc, queries, final_query_id, ctor_error, order, engine_vars,
                    caller_vars, reexecuted, parked, script, key_vars >>

OrderNext ==
    \/ \E id \in StepIds : AddStep(id)
    \/ \E dep_id \in StepIds : AddDependency(dep_id)
    \/ \E final \in StepIds : Construct(final)
    \/ GetExecutionOrder
    \/ GetExecutionOrderAgain

OrderSpec == Init /\ [][OrderNext]_vars

\* ------------------------------ execute_plan called again on the plan
\* A constructed chain of up to MaxObserved steps, not yet executed.
ReexecInit ==
    /\ pc = "constructed"
    /\ \E n \in 1..MaxObserved :
          /\ final_query_id = Some(n)
          /\ queries = [ p \in 1..n |->
                          [ QueryStep(p) EXCEPT
                              !.depends_on = IF p > 1 THEN << p - 1 >> ELSE << >> ] ]
    /\ ctor_error = None
    /\ order = << >>
    /\ execution_order = << >>
    /\ idx = 0
    /\ max_retries = 0
    /\ retry_count = 0
    /\ sql = None
    /\ error_message = None
    /\ results_cache = << >>
    /\ max_results = 0
    /\ exec_count = 0
    /\ fix_count = 0
    /\ fix_raised = FALSE
    /\ final_results = None
    /\ snapshots = << >>
    /\ response = None
    /\ SingleCall
    /\ KeysUnloaded

\* The caller hands the plan that execute_plan returned to execute_plan once
\* more: the locals start afresh, the steps are as the first call left them.
ExecuteAgain(budget, m) ==
    /\ pc = "returned"
    /\ ~reexecuted
    /\ reexecuted' = TRUE
    /\ max_results' = IF m # 0 THEN m ELSE MAX_QUERY_RESULTS
    /\ max_retries' = budget
    /\ execution_order' = get_execution_order(queries)
    /\ results_cache' = << >>
    /\ exec_count' = 0
    /\ fix_count' = 0
    /\ IF execution_order' # << >>
       THEN /\ idx' = 1
            /\ pc' = "attempt"
       ELSE /\ idx' = 0
            /\ pc' = "returned"
    /\ retry_count' = 0
    /\ sql' = None
    /\ UNCHANGED << queries, final_query_id, ctor_error, order, caller_vars,
                    order_again, parked, script, key_vars, error_message, fix_raised >>

ReexecNext ==
    \/ \E budget \in 0..1 : \E m \in MaxResultsArgs : ExecutePlan(budget, m)
    \/ \E budget \in 0..1 : \E m \in MaxResultsArgs : ExecuteAgain(budget, m)
    \/ WhileHead
    \/ \E raw_results \in RawResults : StoreReturns(raw_results)
    \/ \E message \in ErrorMessages : StoreRaises(message)
    \/ \E corrected_sql \in CorrectedTexts : CorrectorReturns(corrected_sql)
    \/ CorrectorRaises

ReexecSpec == ReexecInit /\ [][ReexecNext]_vars

\* ------------------------- APIKeyManager / GroqKeyManager (key rotation)
\* The class attributes _all_api_keys, _current_key_index (0-based as in the
\* code) and _failed_keys are shared by every caller; nothing locks them.
\* Keys are the numbers 1..MaxKeys; a .env file may hold a key twice.  Each
\* caller is a thread with its own locals; one action is one statement that
\* reads or writes a class attribute, with the local statements that follow
\* it, and the read-modify-write of the index is a load and a store.
KeyAt(i) == _all_api_keys[i + 1]

\* What a call hands to its caller: a return value or an exception.
Returns(value) == [ raised |-> "none", value |-> value ]
Raises(exception) == [ raised |-> exception, value |-> 0 ]

\* rotate_key() run from its first statement to its return with nothing in
\* between: the return value and the class attributes it leaves.
RECURSIVE rotate_loop(_, _, _, _, _)
rotate_loop(keys, index, original_index, attempts, failed) ==
    IF attempts < Len(keys)
    THEN LET next_index == (index + 1) % Len(keys)
         IN  IF next_index = original_index
             THEN [ ret |-> Returns(FALSE), index |-> next_index, failed |-> failed ]
             ELSE IF keys[next_index + 1] \in failed
             THEN rotate_loop(keys, next_index, original_index, attempts + 1, failed)
             ELSE [ ret |-> Returns(TRUE), index |-> next_index, failed |-> failed ]
    ELSE [ ret |-> Returns(FALSE), index |-> index, failed |-> failed ]

rotate_key(keys, index, failed) ==
    IF Len(keys) <= 1
    THEN [ ret |-> Returns(FALSE), index |-> index, failed |-> failed ]
    ELSE rotate_loop(keys, index, index, 0, failed \cup { keys[index + 1] })

\* get_current_key() run likewise.
RECURSIVE get_loop(_, _, _, _)
get_loop(keys, index, attempts, failed) ==
    IF attempts < Len(keys)
    THEN IF keys[index + 1] \notin failed
         THEN [ ret |-> Returns(keys[index + 1]), index |-> index, failed |-> failed ]
         ELSE get_loop(keys, (index + 1) % Len(keys), attempts + 1, failed)
    ELSE [ ret |-> Raises("APIError"), index |-> index, failed |-> failed ]

get_current_key(keys, index, failed) ==
    IF keys = << >>
    THEN [ ret |-> Raises("ConfigurationError"), index |-> index, failed |-> failed ]
    ELSE get_loop(keys, index, 0, failed)

\* entry_index and entry_failed are history: the class attributes when the
\* call began.
IdleThread ==
    [ pc |-> "idle", op |-> "none", entry_index |-> 0, entry_failed |-> { },
      current_key |-> 0, original_index |-> 0, attempts |-> 0, loaded |-> 0,
      key |-> 0, ret |-> None ]

\* No plan is involved.
NoPlan ==
    /\ pc = "keys"
    /\ queries = << >>
    /\ final_query_id = None
    /\ ctor_error = None
    /\ order = << >>
    /\ execution_order = << >>
    /\ idx = 0
    /\ max_retries = 0
    /\ retry_count = 0
    /\ sql = None
    /\ error_message = None
    /\ results_cache = << >>
    /\ max_results = 0
    /\ exec_count = 0
    /\ fix_count = 0
    /\ fix_raised = FALSE
    /\ final_results = None
    /\ snapshots = << >>
    /\ response = None
    /\ SingleCall

plan_side == << pc, queries, final_query_id, ctor_error, order, engine_vars,
                caller_vars, order_again, reexecuted, parked, script >>

\* After _load_keys: any list of up to MaxKeys keys (GroqKeyManager accepts
\* the empty list), index 0, nothing failed, and one caller.
KeyInit ==
    /\ NoPlan
    /\ \E n \in 0..MaxKeys : _all_api_keys \in [ 1..n -> 1..MaxKeys ]
    /\ _current_key_index = 0
    /\ _failed_keys = { }
    /\ thread = [ t \in { 1 } |-> IdleThread ]

\* Two callers and at least two distinct keys.
KeyRaceInit ==
    /\ NoPlan
    /\ \E n \in 2..MaxKeys : _all_api_keys = [ i \in 1..n |-> i ]
    /\ _current_key_index = 0
    /\ _failed_keys = { }
    /\ thread = [ t \in { 1, 2 } |-> IdleThread ]

\* manager.rotate_key() is called.
RotateCall(t) ==
    /\ thread[t].pc = "idle"
    /\ thread' = [ thread EXCEPT ![t] = [ IdleThread EXCEPT
                      !.pc = "r_check", !.op = "rotate_key",
                      !.entry_index = _current_key_index,
                      !.entry_failed = _failed_keys ] ]
    /\ UNCHANGED << plan_side, _all_api_keys, _current_key_index, _failed_keys >>

\* if not _all_api_keys or len(_all_api_keys) <= 1: return False
RotateCheck(t) ==
    /\ thread[t].pc = "r_check"
    /\ thread' = IF Len(_all_api_keys) <= 1
                 THEN [ thread EXCEPT ![t].pc = "done", ![t].ret = Returns(FALSE) ]
                 ELSE [ thread EXCEPT ![t].pc = "r_read" ]
    /\ UNCHANGED << plan_side, _all_api_keys, _current_key_index, _failed_keys >>

\* current_key = _all_api_keys[_current_key_index]
RotateRead(t) ==
    /\ thread[t].pc = "r_read"
    /\ thread' = [ thread EXCEPT ![t].pc = "r_mark",
                                 ![t].current_key = KeyAt(_current_key_index) ]
    /\ UNCHANGED << plan_side, _all_api_keys, _current_key_index, _failed_keys >>

\* _failed_keys.add(current_key)
RotateMark(t) ==
    /\ thread[t].pc = "r_mark"
    /\ _failed_keys' = _failed_keys \cup { thread[t].current_key }
    /\ thread' = [ thread EXCEPT ![t].pc = "r_remember" ]
    /\ UNCHANGED << plan_side, _all_api_keys, _current_key_index >>

\* original_index = _current_key_index; attempts = 0; the while condition
RotateRemember(t) ==
    /\ thread[t].pc = "r_remember"
    /\ thread' = [ thread EXCEPT ![t].original_index = _current_key_index,
                                 ![t].attempts = 0,
                                 ![t].pc = "r_load" ]
    /\ UNCHANGED << plan_side, _all_api_keys, _current_key_index, _failed_keys >>

\* the right-hand side of the assignment to _current_key_index
RotateLoad(t) ==
    /\ thread[t].pc = "r_load"
    /\ thread' = [ thread EXCEPT ![t].loaded = _current_key_index, ![t].pc = "r_store" ]
    /\ UNCHANGED << plan_side, _all_api_keys, _current_key_index, _failed_keys >>

\* _current_key_index = (... + 1) % len(_all_api_keys); attempts += 1
RotateStore(t) ==
    /\ thread[t].pc = "r_store"
    /\ _current_key_index' = (thread[t].loaded + 1) % Len(_all_api_keys)
    /\ thread' = [ thread EXCEPT ![t].attempts = @ + 1, ![t].pc = "r_cycled" ]
    /\ UNCHANGED << plan_side, _all_api_keys, _failed_keys >>

\* if _current_key_index == original_index: return False
RotateCycled(t) ==
    /\ thread[t].pc = "r_cycled"
    /\ thread' = IF _current_key_index = thread[t].original_index
                 THEN [ thread EXCEPT ![t].pc = "done", ![t].ret = Returns(FALSE) ]
                 ELSE [ thread EXCEPT ![t].pc = "r_next" ]
    /\ UNCHANGED << plan_side, _all_api_keys, _current_key_index, _failed_keys >>

\* next_key = _all_api_keys[_current_key_index]
RotateNext(t) ==
    /\ thread[t].pc = "r_next"
    /\ thread' = [ thread EXCEPT ![t].key = KeyAt(_current_key_index), ![t].pc = "r_skip" ]
    /\ UNCHANGED << plan_side, _all_api_keys, _current_key_index, _failed_keys >>

\* if next_key in _failed_keys: continue (and the while condition; after the
\* loop, return False); else return True
RotateSkip(t) ==
    /\ thread[t].pc = "r_skip"
    /\ thread' = IF thread[t].key \in _failed_keys
                 THEN IF thread[t].attempts < Len(_all_api_keys)
                      THEN [ thread EXCEPT ![t].pc = "r_load" ]
                      ELSE [ thread EXCEPT ![t].pc = "done", ![t].ret = Returns(FALSE) ]
                 ELSE [ thread EXCEPT ![t].pc = "done", ![t].ret = Returns(TRUE) ]
    /\ UNCHANGED << plan_side, _all_api_keys, _current_key_index, _failed_keys >>

\* manager.get_current_key() is called.
GetCall(t) ==
    /\ thread[t].pc = "idle"
    /\ thread' = [ thread EXCEPT ![t] = [ IdleThread EXCEPT
                      !.pc = "g_check", !.op = "get_current_key",
                      !.entry_index = _current_key_index,
                      !.entry_failed = _failed_keys ] ]
    /\ UNCHANGED << plan_side, _all_api_keys, _current_key_index, _failed_keys >>

\* if not _all_api_keys: raise ConfigurationError; attempts = 0; the while
\* condition (max_attempts is at least 1)
GetCheck(t) ==
    /\ thread[t].pc = "g_check"
    /\ thread' = IF _all_api_keys = << >>
                 THEN [ thread EXCEPT ![t].pc = "done", ![t].ret = Raises("ConfigurationError") ]
                 ELSE [ thread EXCEPT ![t].pc = "g_read", ![t].attempts = 0 ]
    /\ UNCHANGED << plan_side, _all_api_keys, _current_key_index, _failed_keys >>

\* key = _all_api_keys[_current_key_index]
GetRead(t) ==
    /\ thread[t].pc = "g_read"
    /\ thread' = [ thread EXCEPT ![t].key = KeyAt(_current_key_index), ![t].pc = "g_test" ]
    /\ UNCHANGED << plan_side, _all_api_keys, _current_key_index, _failed_keys >>

\* if key not in _failed_keys: return key
GetTest(t) ==
    /\ thread[t].pc = "g_test"
    /\ thread' = IF thread[t].key \notin _failed_keys
                 THEN [ thread EXCEPT ![t].pc = "done", ![t].ret = Returns(thread[t].key) ]
                 ELSE [ thread EXCEPT ![t].pc = "g_load" ]
    /\ UNCHANGED << plan_side, _all_api_keys, _current_key_index, _failed_keys >>

\* the right-hand side of the assignment to _current_key_index
GetLoad(t) ==
    /\ thread[t].pc = "g_load"
    /\ thread' = [ thread EXCEPT ![t].loaded = _current_key_index, ![t].pc = "g_store" ]
    /\ UNCHANGED << plan_side, _all_api_keys, _current_key_index, _failed_keys >>

\* _current_key_index = (... + 1) % len(_all_api_keys); attempts += 1; the
\* while condition; after the loop, raise APIError
GetStore(t) ==
    /\ thread[t].pc = "g_store"
    /\ _current_key_index' = (thread[t].loaded + 1) % Len(_all_api_keys)
    /\ thread' = IF thread[t].attempts + 1 < Len(_all_api_keys)
                 THEN [ thread EXCEPT ![t].attempts = @ + 1, ![t].pc = "g_read" ]
                 ELSE [ thread EXCEPT ![t].attempts = @ + 1, ![t].pc = "done",
                                      ![t].ret = Raises("APIError") ]
    /\ UNCHANGED << plan_side, _all_api_keys, _failed_keys >>

\* The call is over: the caller has its return value or exception and may
\* call again.
Return(t) ==
    /\ thread[t].pc = "done"
    /\ thread' = [ thread EXCEPT ![t] = IdleThread ]
    /\ UNCHANGED << plan_side, _all_api_keys, _current_key_index, _failed_keys >>

KeyNext ==
    \/ \E t \in DOMAIN thread : RotateCall(t)
    \/ \E t \in DOMAIN thread : RotateCheck(t)
    \/ \E t \in DOMAIN thread : RotateRead(t)
    \/ \E t \in DOMAIN thread : RotateMark(t)
    \/ \E t \in DOMAIN thread : RotateRemember(t)
    \/ \E t \in DOMAIN thread : RotateLoad(t)
    \/ \E t \in DOMAIN thread : RotateStore(t)
    \/ \E t \in DOMAIN thread : RotateCycled(t)
    \/ \E t \in DOMAIN thread : RotateNext(t)
    \/ \E t \in DOMAIN thread : RotateSkip(t)
    \/ \E t \in DOMAIN thread : GetCall(t)
    \/ \E t \in DOMAIN thread : GetCheck(t)
    \/ \E t \in DOMAIN thread : GetRead(t)
    \/ \E t \in DOMAIN thread : GetTest(t)
    \/ \E t \in DOMAIN thread : GetLoad(t)
    \/ \E t \in DOMAIN thread : GetStore(t)
    \/ \E t \in DOMAIN thread : Return(t)

\* One caller: every call runs from its first statement to its return.
KeySpec == KeyInit /\ [][KeyNext]_vars

\* Two threads, one call each: the calls interleave statement by statement.
KeyRaceNext ==
    \/ \E t \in DOMAIN thread : RotateCall(t)
    \/ \E t \in DOMAIN thread : RotateCheck(t)
    \/ \E t \in DOMAIN thread : RotateRead(t)
    \/ \E t \in DOMAIN thread : RotateMark(t)
    \/ \E t \in DOMAIN thread : RotateRemember(t)
    \/ \E t \in DOMAIN thread : RotateLoad(t)
    \/ \E t \in DOMAIN thread : RotateStore(t)
    \/ \E t \in DOMAIN thread : RotateCycled(t)
    \/ \E t \in DOMAIN thread : RotateNext(t)
    \/ \E t \in DOMAIN thread : RotateSkip(t)
    \/ \E t \in DOMAIN thread : GetCall(t)
    \/ \E t \in DOMAIN thread : GetCheck(t)
    \/ \E t \in DOMAIN thread : GetRead(t)
    \/ \E t \in DOMAIN thread : GetTest(t)
    \/ \E t \in DOMAIN thread : GetLoad(t)
    \/ \E t \in DOMAIN thread : GetStore(t)

KeyRaceSpec == KeyRaceInit /\ [][KeyRaceNext]_vars

\* ------------------------------ two execute_plan calls, two plans
\* Everything one call works on: the plan it was given and its locals.  The
\* engine object itself holds no retry counter and no cache.
Frame ==
    [ pc |-> pc, queries |-> queries, final_query_id |-> final_query_id,
      execution_order |-> execution_order, idx |-> idx, max_retries |-> max_retries,
      retry_count |-> retry_count, sql |-> sql, error_message |-> error_message,
      results_cache |-> results_cache, max_results |-> max_results,
      exec_count |-> exec_count, fix_count |-> fix_count, fix_raised |-> fix_raised,
      script |-> script ]

\* What the store answers to an execution and the corrector to a call.
Rows(raw) == [ kind |-> "rows", raw |-> raw, message |-> "" ]
Error(message) == [ kind |-> "raise", raw |-> << >>, message |-> message ]
NotAsked == [ kind |-> "none", raw |-> << >>, message |-> "" ]
Text(corrected_sql) == [ kind |-> "text", sql |-> corrected_sql ]
FixError == [ kind |-> "raise", sql |-> << >> ]

\* The answers to the executions of one step under a budget of one retry:
\* rows; an error that is not retried; an error and a corrector that raises;
\* an error, a corrected text, and rows or an error again.
StepScripts ==
    { [ store |-> << Rows(raw), NotAsked >>, fix |-> << FixError >> ] : raw \in RawResults }
    \cup { [ store |-> << Error("database is locked"), NotAsked >>, fix |-> << FixError >> ] }
    \cup { [ store |-> << Error("no such column: x"), NotAsked >>, fix |-> << FixError >> ] }
    \cup { [ store |-> << Error("no such column: x"), second >>, fix |-> << Text(c) >> ] :
             second \in { Rows(raw) : raw \in RawResults } \cup { Error("no such column: x") },
             c \in CorrectedTexts }

\* A chain of n steps as a constructed plan.
Chain(n) ==
    [ p \in 1..n |-> [ QueryStep(p) EXCEPT !.depends_on = IF p > 1 THEN << p - 1 >> ELSE << >> ] ]

\* Two plans with steps of the same ids, a chain of two steps and a single
\* step, each about to be executed with its own answers from the store and
\* the corrector; the second call waits.
TwoCallInit ==
    /\ pc = "constructed"
    /\ queries = Chain(2)
    /\ final_query_id = Some(2)
    /\ script \in [ 1..2 -> StepScripts ]
    /\ \E other \in [ 1..1 -> StepScripts ] :
          parked = Some([ pc |-> "constructed", queries |-> Chain(1),
                          final_query_id |-> Some(1), execution_order |-> << >>,
                          idx |-> 0, max_retries |-> 0, retry_count |-> 0, sql |-> None,
                          error_message |-> None, results_cache |-> << >>,
                          max_results |-> 0, exec_count |-> 0, fix_count |-> 0,
                          fix_raised |-> FALSE, script |-> other ])
    /\ ctor_error = None
    /\ order = << >>
    /\ execution_order = << >>
    /\ idx = 0
    /\ max_retries = 0
    /\ retry_count = 0
    /\ sql = None
    /\ error_message = None
    /\ results_cache = << >>
    /\ max_results = 0
    /\ exec_count = 0
    /\ fix_count = 0
    /\ fix_raised = FALSE
    /\ final_results = None
    /\ snapshots = << >>
    /\ response = None
    /\ order_again = None
    /\ reexecuted = FALSE
    /\ KeysUnloaded

\* A cache that belongs to the engine: the calls share it.
Switch_shares_cache ==
    /\ parked # None
    /\ parked' = Some(Frame)
    /\ pc' = parked[1].pc
    /\ queries' = parked[1].queries
    /\ final_query_id' = parked[1].final_query_id
    /\ execution_order' = parked[1].execution_order
    /\ idx' = parked[1].idx
    /\ max_retries' = parked[1].max_retries
    /\ retry_count' = parked[1].retry_count
    /\ sql' = parked[1].sql
    /\ error_message' = parked[1].error_message
    /\ results_cache' = results_cache
    /\ max_results' = parked[1].max_results
    /\ exec_count' = parked[1].exec_count
    /\ fix_count' = parked[1].fix_count
    /\ fix_raised' = parked[1].fix_raised
    /\ script' = parked[1].script
    /\ UNCHANGED << ctor_error, order, caller_vars, order_again, reexecuted, key_vars >>

\* The other call goes on (another thread is scheduled, or the caller makes
\* its next call): its plan and its locals are its own.
Switch ==
    /\ parked # None
    /\ parked' = Some(Frame)
    /\ pc' = parked[1].pc
    /\ queries' = parked[1].queries
    /\ final_query_id' = parked[1].final_query_id
    /\ execution_order' = parked[1].execution_order
    /\ idx' = parked[1].idx
    /\ max_retries' = parked[1].max_retries
    /\ retry_count' = parked[1].retry_count
    /\ sql' = parked[1].sql
    /\ error_message' = parked[1].error_message
    /\ results_cache' = parked[1].results_cache
    /\ max_results' = parked[1].max_results
    /\ exec_count' = parked[1].exec_count
    /\ fix_count' = parked[1].fix_count
    /\ fix_raised' = parked[1].fix_raised
    /\ script' = parked[1].script
    /\ UNCHANGED << ctor_error, order, caller_vars, order_again, reexecuted, key_vars >>

\* The store and the corrector answer as the script of the call says.
ScriptedStoreReturns ==
    /\ pc = "db"
    /\ \E raw_results \in RawResults :
          /\ script[Current].store[exec_count] = Rows(raw_results)
          /\ StoreReturns(raw_results)

ScriptedStoreRaises ==
    /\ pc = "db"
    /\ \E message \in ErrorMessages :
          /\ script[Current].store[exec_count] = Error(message)
          /\ StoreRaises(message)

ScriptedCorrectorReturns ==
    /\ pc = "fix"
    /\ \E corrected_sql \in CorrectedTexts :
          /\ script[Current].fix[fix_count] = Text(corrected_sql)
          /\ CorrectorReturns(corrected_sql)

ScriptedCorrectorRaises ==
    /\ pc = "fix"
    /\ script[Current].fix[fix_count] = FixError
    /\ CorrectorRaises

TwoCallNext ==
    \/ \E m \in MaxResultsArgs : ExecutePlan(1, m)
    \/ WhileHead
    \/ ScriptedStoreReturns
    \/ ScriptedStoreRaises
    \/ ScriptedCorrectorReturns
    \/ ScriptedCorrectorRaises
    \/ Switch

TwoCallSpec == TwoCallInit /\ [][TwoCallNext]_vars

\* ======================================================================
\* Properties
\* ======================================================================
InExecution == { "attempt", "db", "fix" }
Called == InExecution \cup { "returned", "raised" }

\* The depends_on relation of a step list and its transitive closure.
DependsOn(qs) ==
    UNION { { << qs[i].id, qs[i].depends_on[j] >> : j \in 1..Len(qs[i].depends_on) } :
            i \in 1..Len(qs) }

Successors(rel, S) == { e[2] : e \in { x \in rel : x[1] \in S } }

RECURSIVE Closure(_, _)
Closure(rel, S) ==
    LET T == S \cup Successors(rel, S)
    IN  IF T = S THEN S ELSE Closure(rel, T)

HasCycle(qs) ==
    \E i \in 1..Len(qs) :
        qs[i].id \in Closure(DependsOn(qs), Successors(DependsOn(qs), {qs[i].id}))

UniqueIds(qs) == \A i, j \in 1..Len(qs) : qs[i].id = qs[j].id => i = j
FinalExists(qs, final) == \E i \in 1..Len(qs) : Some(qs[i].id) = final
DependenciesExist(qs) ==
    \A e \in DependsOn(qs) : \E i \in 1..Len(qs) : qs[i].id = e[2]

\* o lists every position of qs exactly once, each after the steps it
\* depends on.
IsExecutionOrder(qs, o) ==
    /\ \A p \in 1..Len(qs) : Cardinality({ k \in 1..Len(o) : o[k] = p }) = 1
    /\ Len(o) = Len(qs)
    /\ \A k \in 1..Len(o) :
          \A j \in 1..Len(qs[o[k]].depends_on) :
              \E k2 \in 1..(k - 1) : qs[o[k2]].id = qs[o[k]].depends_on[j]

\* C1: for every plan that passed construction, get_execution_order()
\* returns every step of the plan exactly once, each step after every step
\* listed in its depends_on (both where the caller asks for the order and
\* where execute_plan does).
C1_ExecutionOrderIsTopological ==
    /\ pc = "ordered" => IsExecutionOrder(queries, order)
    /\ pc \in Called => IsExecutionOrder(queries, execution_order)

\* A three-step plan with a step of two dependencies whose order is not
\* the order of the list.
C1_Witness ==
    /\ pc = "ordered"
    /\ Len(queries) = 3
    /\ order # << 1, 2, 3 >>
    /\ \E p \in 1..3 : Len(queries[p].depends_on) = 2

\* C2: for a candidate with unique ids, an existing final id and only
\* resolvable dependencies, construction raises the circular-dependency
\* error if and only if depends_on has a cycle; when it raises, no plan is
\* produced.
C2_CircularErrorIffCycle ==
    ( /\ pc # "building"
      /\ UniqueIds(queries)
      /\ FinalExists(queries, final_query_id)
      /\ DependenciesExist(queries) )
    => /\ (ctor_error = Some(CIRCULAR_ERROR)) <=> HasCycle(queries)
       /\ HasCycle(queries) => pc = "rejected"

\* Rejected for a cycle through three steps.
C2_Witness ==
    /\ pc = "rejected"
    /\ ctor_error = Some(CIRCULAR_ERROR)
    /\ Len(queries) = 3
    /\ \A i \in 1..3 : Len(queries[i].depends_on) = 1 /\ queries[i].depends_on[1] # queries[i].id
    /\ UniqueIds(queries)

\* C3: construction fails, and produces no plan, whenever two steps share
\* an id, or final_query_id is the id of no step, or some depends_on entry
\* names no step.
C3_StructuralErrorsRejected ==
    ( /\ pc # "building"
      /\ \/ ~UniqueIds(queries)
         \/ ~FinalExists(queries, final_query_id)
         \/ ~DependenciesExist(queries) )
    => pc = "rejected" /\ ctor_error # None

\* Rejected with unique ids and resolvable dependencies: the final id is
\* the one that names no step.
C3_Witness ==
    /\ pc = "rejected"
    /\ UniqueIds(queries)
    /\ DependenciesExist(queries)
    /\ ~FinalExists(queries, final_query_id)
    /\ Len(queries) = 2

StatusOf(p) == queries[p].status
AllCompleted == \A p \in 1..Len(queries) : StatusOf(p) = COMPLETED
PositionOf(id) == get_query(queries, id)

\* C4: steps are started one at a time in the order returned by
\* get_execution_order(), and a step leaves Pending (to Executing) only
\* when every step in its depends_on is Completed.
C4_StartedInOrderAfterDependencies ==
    [][ \A p \in 1..Len(queries) :
          (StatusOf(p) = PENDING /\ queries'[p].status # PENDING) =>
             /\ queries'[p].status = EXECUTING
             /\ execution_order = get_execution_order(queries)
             /\ p = Current
             /\ \A k \in 1..Len(execution_order) :
                   /\ k < idx => StatusOf(execution_order[k]) = COMPLETED
                   /\ k > idx => StatusOf(execution_order[k]) = PENDING
             /\ \A j \in 1..Len(queries[p].depends_on) :
                   StatusOf(PositionOf(queries[p].depends_on[j])) = COMPLETED
      ]_vars

\* A step with two different dependencies is executing, in a plan whose
\* execution order is not the order of the list.
C4_Witness ==
    /\ pc = "db"
    /\ StatusOf(Current) = EXECUTING
    /\ Len(queries[Current].depends_on) = 2
    /\ queries[Current].depends_on[1] # queries[Current].depends_on[2]
    /\ execution_order # << 1, 2, 3 >>

\* An upper bound on the steps execute_plan still takes before it returns:
\* three per remaining attempt of the current step (try, store, corrector)
\* and as many for each step not yet started.
Remaining ==
    IF pc \notin InExecution THEN 0
    ELSE (Len(execution_order) - idx) * (3 * max_retries + 4)
         + 3 * (max_retries - retry_count)
         + (CASE pc = "attempt" -> 3 [] pc = "db" -> 2 [] pc = "fix" -> 4)

\* C5: for every retry budget >= 0 and whatever the store and the
\* corrector do, execute_plan terminates (it is never stuck before it
\* returns, and each of its steps lowers the bound Remaining, which is never
\* negative), and when it has returned no step is Executing.
C5_TerminatesWithTerminalStatuses ==
    /\ [](pc = "returned" => \A p \in 1..Len(queries) : StatusOf(p) # EXECUTING)
    /\ [](pc \in InExecution => Remaining >= 0 /\ ENABLED ExecStep)
    /\ [][ (pc \in InExecution) =>
              /\ pc' \in InExecution \cup { "returned" }
              /\ Remaining' < Remaining
      ]_vars

\* Returned after the whole budget of two corrections was used on the
\* second step, which failed, with the third step never started.
C5_Witness ==
    /\ pc = "returned"
    /\ max_retries = MAX_SQL_ERROR_RETRIES
    /\ Len(queries) = 3
    /\ idx = 2
    /\ StatusOf(Current) = FAILED
    /\ retry_count = max_retries
    /\ StatusOf(execution_order[3]) = PENDING

\* C6: a step whose every execution fails with a retryable error and whose
\* corrector always returns a text is executed exactly budget+1 times, with
\* exactly budget corrector calls, before it is marked Failed.
C6_BudgetPlusOneExecutions ==
    ( /\ pc = "returned"
      /\ idx > 0
      /\ StatusOf(Current) = FAILED
      /\ queries[Current].error # None
      /\ _is_retryable_error(queries[Current].error[1])
      /\ ~fix_raised )
    => /\ exec_count = max_retries + 1
       /\ fix_count = max_retries

\* The default budget: three executions and two corrections, then Failed.
C6_Witness ==
    /\ pc = "returned"
    /\ max_retries = 2
    /\ StatusOf(Current) = FAILED
    /\ queries[Current].error = Some("no such column: x")
    /\ ~fix_raised
    /\ exec_count = 3
    /\ fix_count = 2

\* C7: when a step is marked Failed execute_plan starts no further step:
\* it returns, every step after the failed one in execution order is still
\* Pending with no result and no error, and every Completed step is left
\* as it was.
C7_FailureHaltsPlan ==
    [][ \A p \in 1..Len(queries) :
          (StatusOf(p) # FAILED /\ queries'[p].status = FAILED) =>
             /\ pc' = "returned"
             /\ p = Current
             /\ \A k \in 1..Len(execution_order) :
                   k > idx =>
                      /\ queries'[execution_order[k]].status = PENDING
                      /\ queries'[execution_order[k]].results = None
                      /\ queries'[execution_order[k]].error = None
             /\ \A q \in 1..Len(queries) :
                   StatusOf(q) = COMPLETED => queries'[q] = queries[q]
      ]_vars

\* The second of three steps failed: the first is Completed with its
\* result, the third is Pending.
C7_Witness ==
    /\ pc = "returned"
    /\ Len(queries) = 3
    /\ idx = 2
    /\ StatusOf(execution_order[1]) = COMPLETED
    /\ queries[execution_order[1]].results # None
    /\ StatusOf(execution_order[2]) = FAILED
    /\ StatusOf(execution_order[3]) = PENDING

\* C8: execute_plan returns the plan and never raises, whatever the store
\* raises and whether the corrector returns or raises; a failure is
\* recorded in the failed step's status and error.
C8_NeverRaises ==
    /\ pc # "raised"
    /\ pc = "returned" =>
          \/ AllCompleted
          \/ /\ StatusOf(Current) = FAILED
             /\ queries[Current].error = error_message

\* Returned normally after the store raised and then the corrector raised.
C8_Witness ==
    /\ pc = "returned"
    /\ fix_raised
    /\ StatusOf(Current) = FAILED
    /\ idx > 1

\* The relations a query text defines in its WITH clause.
DefinedRelations(text) ==
    UNION { { text[f].ctes[c] : c \in 1..Len(text[f].ctes) } :
            f \in { g \in 1..Len(text) : text[g].kind = "with" } }

\* C9: when a step depends on a Completed step whose result has zero rows,
\* the text the resolver produces still defines a relation named after that
\* dependency, with zero rows.
C9_EmptyDependencyDefined ==
    (pc = "db" /\ retry_count = 0) =>
       \A j \in 1..Len(queries[Current].depends_on) :
          LET dep == PositionOf(queries[Current].depends_on[j])
          IN  ( /\ StatusOf(dep) = COMPLETED
                /\ queries[dep].results[1].rows = << >> )
              => \E cte \in DefinedRelations(sql) :
                    /\ cte.name = queries[dep].id
                    /\ cte.selects = << >>

\* C10: during and after execute_plan on a freshly constructed plan, each
\* step has results if and only if it is Completed and an error if and
\* only if it is Failed, retried steps included.
C10_ResultsIffCompletedErrorIffFailed ==
    \A p \in 1..Len(queries) :
       /\ queries[p].results # None <=> StatusOf(p) = COMPLETED
       /\ queries[p].error # None <=> StatusOf(p) = FAILED

\* A step completed after a correction, and a later step failed after
\* one.
C10_Witness ==
    /\ pc = "returned"
    /\ \E p \in 1..Len(queries) :
          /\ StatusOf(p) = COMPLETED
          /\ queries[p].sql \in CorrectedTexts
    /\ StatusOf(Current) = FAILED
    /\ fix_count >= 1

\* The position of the step named by final_query_id.
FinalPosition == CHOOSE p \in 1..Len(queries) : Some(queries[p].id) = final_query_id

\* C11: get_final_results() returns the results of the step whose id is
\* final_query_id exactly when that step is Completed, and None when it is
\* Pending, Executing or Failed, whatever the other steps are.
C11_FinalResultsIffCompleted ==
    (pc = "observing" /\ final_results # None) =>
       final_results[1] = IF StatusOf(FinalPosition) = COMPLETED
                          THEN queries[FinalPosition].results
                          ELSE None

\* The call returned the rows of the Completed final step of a plan whose
\* other step is Failed.
C11_Witness ==
    /\ pc = "observing"
    /\ final_results # None
    /\ final_results[1] # None
    /\ final_results[1][1].rows # << >>
    /\ StatusOf(FinalPosition) = COMPLETED
    /\ \E p \in 1..Len(queries) : StatusOf(p) = FAILED

\* C12: if the first execution of a step fails with a retryable error and
\* the text the corrector returns is executed successfully, the step ends
\* Completed with no error, the corrector was called exactly once for it,
\* and execute_plan goes on with the step that follows (or returns after
\* the last one).
C12_CorrectedOnceThenContinues ==
    [][ ( /\ pc = "db"
          /\ exec_count = 2
          /\ _is_retryable_error(error_message[1])
          /\ sql \in CorrectedTexts
          /\ \E raw_results \in RawResults : StoreReturns(raw_results) )
        => /\ queries'[Current].status = COMPLETED
           /\ queries'[Current].error = None
           /\ queries'[Current].results # None
           /\ fix_count' = 1
           /\ IF idx < Len(execution_order)
              THEN /\ pc' = "attempt"
                   /\ idx' = idx + 1
                   /\ retry_count' = 0
                   /\ queries'[execution_order[idx']].status = PENDING
              ELSE pc' = "returned"
      ]_vars

\* The first of three steps was corrected once and completed on its second
\* execution; the loop stands at the second step.
C12_Witness ==
    /\ pc = "attempt"
    /\ Len(queries) = 3
    /\ idx = 2
    /\ retry_count = 0
    /\ exec_count = 2
    /\ fix_count = 1
    /\ StatusOf(execution_order[1]) = COMPLETED
    /\ queries[execution_order[1]].error = None
    /\ queries[execution_order[1]].sql \in CorrectedTexts

\* The calls of fix_sql_error a state of the call shows: those for the
\* current step, and at least one for every other step whose text is a
\* corrected one.
CorrectorCalls ==
    fix_count
    + Cardinality({ p \in 1..Len(queries) :
                      p # Current /\ queries[p].sql \in CorrectedTexts })

\* C13 as stated: the retry budget is per plan, so that during one
\* execute_plan call the corrector is called at most budget times in
\* total, over all steps of the plan.
C13_BudgetPerPlan ==
    pc \in { "db", "fix", "returned" } => CorrectorCalls <= max_retries

\* C13 as amended: the retry budget is per step, so that during one
\* execute_plan call the corrector is called at most budget times for each
\* step (retry_count starts at 0 for every step).
C13_BudgetPerStep ==
    pc \in Called =>
       /\ fix_count <= max_retries
       /\ pc \in { "db", "fix" } => retry_count = fix_count
       /\ pc = "attempt" => retry_count \in { 0, fix_count }

\* With a budget of one the corrector is called for the second step after
\* it was called for the first: twice in total, once per step.
C13_Witness ==
    /\ pc = "fix"
    /\ max_retries = 1
    /\ idx = 2
    /\ fix_count = 1
    /\ StatusOf(execution_order[1]) = COMPLETED
    /\ queries[execution_order[1]].sql \in CorrectedTexts

\* C14: when the corrector raises (a missing corrector raises too, inside
\* the same try), the step is marked Failed at once with the message the
\* store raised for the failed execution, it is not executed again even if
\* budget remains, and the plan halts: execute_plan returns with the later
\* steps Pending.
C14_CorrectorFailureFailsStep ==
    /\ [][ (pc = "fix" /\ ~fix_raised /\ fix_raised') =>
              /\ error_message # None
              /\ queries'[Current].status = FAILED
              /\ queries'[Current].error = error_message
              /\ exec_count' = exec_count
              /\ pc' = "returned"
              /\ \A k \in 1..Len(execution_order) :
                    k > idx => queries'[execution_order[k]].status = PENDING
      ]_vars
    /\ [](pc = "returned" => ~ENABLED ExecStep)

\* The corrector raised on its first call for the first of two steps, with
\* a budget of two: one execution, the step Failed, the second Pending.
C14_Witness ==
    /\ pc = "returned"
    /\ fix_raised
    /\ max_retries = 2
    /\ fix_count = 1
    /\ exec_count = 1
    /\ idx = 1
    /\ Len(queries) = 2
    /\ StatusOf(Current) = FAILED
    /\ queries[Current].error = Some("no such column: x")
    /\ StatusOf(execution_order[2]) = PENDING

\* A message with a non-retryable pattern, and one with no known pattern.
ContainsNonRetryable(message) ==
    PatternsIn(message) \cap non_retryable_patterns # {}
ContainsNoKnownPattern(message) ==
    PatternsIn(message) \cap (retryable_patterns \cup non_retryable_patterns) = {}

\* C15 as stated: a step whose execution fails with a message that has a
\* non-retryable pattern (with or without a retryable one) or no known
\* pattern is marked Failed after exactly one execution, and the corrector
\* is never called for it.
C15_FailedAfterOneExecution ==
    ( /\ pc = "returned"
      /\ idx > 0
      /\ StatusOf(Current) = FAILED
      /\ \/ ContainsNonRetryable(queries[Current].error[1])
         \/ ContainsNoKnownPattern(queries[Current].error[1]) )
    => /\ exec_count = 1
       /\ fix_count = 0

\* C15 as amended: an execution that fails with such a message marks the
\* step Failed at once, with that message, without calling the corrector
\* for this failure and without executing the step again; if it is the
\* step's first execution, the step fails after exactly one execution and
\* the corrector is never called for it.
C15_NonRetryableFailsAtOnce ==
    [][ \A message \in ErrorMessages :
          ( /\ ContainsNonRetryable(message) \/ ContainsNoKnownPattern(message)
            /\ StoreRaises(message) )
          => /\ queries'[Current].status = FAILED
             /\ queries'[Current].error = Some(message)
             /\ pc' = "returned"
             /\ fix_count' = fix_count
             /\ exec_count' = exec_count
             /\ retry_count = 0 => (exec_count' = 1 /\ fix_count' = 0)
      ]_vars

\* With the whole budget left, the first execution of a step raised a
\* message holding both a non-retryable and a retryable pattern: Failed
\* after one execution, no corrector call.
C15_Witness ==
    /\ pc = "returned"
    /\ max_retries = 2
    /\ retry_count = 0
    /\ StatusOf(Current) = FAILED
    /\ queries[Current].error = Some("disk i/o error near line 1")
    /\ PatternsIn("disk i/o error near line 1") \cap retryable_patterns # {}
    /\ exec_count = 1
    /\ fix_count = 0

C17_PartialResultsReturned ==
    ( /\ pc = "responded"
      /\ has_errors(queries)
      /\ \E p \in 1..Len(queries) : StatusOf(p) = COMPLETED )
    => /\ response[1].status_code = 200
       /\ \A p \in 1..Len(queries) :
             StatusOf(p) = COMPLETED =>
                response[1].query_plan.queries[p].results = queries[p].results

\* C18: when execute_plan returns for a freshly constructed plan, at most
\* one step is Failed; if none is, every step is Completed; if one is,
\* every step before it in execution order is Completed and every step
\* after it is Pending; so exactly one of is_complete() and has_errors()
\* is true.
C18_OneFailureSplitsThePlan ==
    pc = "returned" =>
       /\ Cardinality({ p \in 1..Len(queries) : StatusOf(p) = FAILED }) <= 1
       /\ (\A p \in 1..Len(queries) : StatusOf(p) # FAILED) => AllCompleted
       /\ \A k \in 1..Len(execution_order) :
             StatusOf(execution_order[k]) = FAILED =>
                \A j \in 1..Len(execution_order) :
                   /\ j < k => StatusOf(execution_order[j]) = COMPLETED
                   /\ j > k => StatusOf(execution_order[j]) = PENDING
       /\ is_complete(queries) # has_errors(queries)

\* The second of three steps failed after the whole budget: Completed,
\* Failed, Pending; has_errors() and not is_complete().
C18_Witness ==
    /\ pc = "returned"
    /\ Len(queries) = 3
    /\ StatusOf(execution_order[1]) = COMPLETED
    /\ StatusOf(execution_order[2]) = FAILED
    /\ StatusOf(execution_order[3]) = PENDING
    /\ exec_count = max_retries + 1
    /\ max_retries = 2
    /\ has_errors(queries)
    /\ ~is_complete(queries)

\* The rows of what the store returned, as lists of values.
RowsOf(raw_results) ==
    [ r \in 1..Len(raw_results) |->
        [ j \in 1..Len(raw_results[r]) |-> raw_results[r][j].value ] ]

FirstRows(rows, m) == [ r \in 1..(IF Len(rows) < m THEN Len(rows) ELSE m) |-> rows[r] ]

\* C19: after execute_plan(plan, max_results=m) with m >= 1 the final step
\* holds at most m rows, the first m the store returned, every other
\* Completed step holds all the rows the store returned for it, and the
\* row_count of every Completed step is the number of rows in its results.
C19_OnlyFinalStepTruncated ==
    /\ [][ \A raw_results \in RawResults :
             (pc = "db" /\ StoreReturns(raw_results)) =>
                /\ queries'[Current].results # None
                /\ queries'[Current].results[1].rows =
                      IF Some(queries[Current].id) = final_query_id
                      THEN FirstRows(RowsOf(raw_results), max_results)
                      ELSE RowsOf(raw_results)
      ]_vars
    /\ [](pc \in Called =>
            /\ max_results >= 1
            /\ \A p \in 1..Len(queries) :
                  StatusOf(p) = COMPLETED =>
                     /\ queries[p].row_count = Some(Len(queries[p].results[1].rows))
                     /\ p = FinalPosition => Len(queries[p].results[1].rows) <= max_results)

\* max_results = 1 and the store returned two rows for both steps: the
\* final step holds the first row, the other step both.
C19_Witness ==
    /\ pc = "returned"
    /\ max_results = 1
    /\ Len(queries) = 2
    /\ AllCompleted
    /\ queries[FinalPosition].results[1].rows = << RowsOf(StoreRows)[1] >>
    /\ queries[FinalPosition].row_count = Some(1)
    /\ \E p \in 1..2 :
          /\ p # FinalPosition
          /\ queries[p].results[1].rows = RowsOf(StoreRows)
          /\ queries[p].row_count = Some(2)

\* C20: within one execute_plan call the status of a step only moves
\* Pending -> Executing -> Completed or Failed; a step that is retried
\* stays Executing and never passes through Failed; a Completed or Failed
\* step keeps its status until the call returns.
C20_StatusOnlyMovesForward ==
    /\ [][ (pc \in InExecution) =>
              \A p \in 1..Len(queries) :
                 /\ StatusOf(p) = PENDING =>
                       queries'[p].status \in { PENDING, EXECUTING }
                 /\ StatusOf(p) = EXECUTING =>
                       queries'[p].status \in { EXECUTING, COMPLETED, FAILED }
                 /\ StatusOf(p) \in { COMPLETED, FAILED } =>
                       queries'[p].status = StatusOf(p)
      ]_vars
    /\ [](( \/ pc \in { "db", "fix" }
            \/ pc = "attempt" /\ retry_count > 0 )
          => StatusOf(Current) = EXECUTING)

\* A step whose text was corrected is about to be executed again with
\* budget left, still Executing, after an earlier step completed.
C20_Witness ==
    /\ pc = "attempt"
    /\ retry_count = 1
    /\ max_retries = 2
    /\ idx = 2
    /\ StatusOf(Current) = EXECUTING
    /\ queries[Current].sql \in CorrectedTexts
    /\ StatusOf(execution_order[1]) = COMPLETED

\* C21: if depends_on is changed after validation so that the steps form
\* a cycle, get_execution_order() does not return an order that omits
\* steps of the plan (it signals the inconsistency instead: no order is
\* returned at all).
C21_NoStepSilentlyOmitted ==
    pc = "ordered" =>
       \A p \in 1..Len(queries) : \E k \in 1..Len(order) : order[k] = p

\* C22: in one execute_plan call an entry of results_cache is written
\* once, when the step with that id completes, and is neither overwritten
\* nor removed afterwards; and whenever the text of a step is resolved,
\* every id in its depends_on is a key of the cache.
C22_CacheWrittenOncePerStep ==
    [][ (pc \in InExecution) =>
           /\ \/ results_cache' = results_cache
              \/ /\ pc = "db"
                 /\ queries'[Current].status = COMPLETED
                 /\ queries[Current].id \notin DOMAIN results_cache
                 /\ DOMAIN results_cache' =
                       DOMAIN results_cache \cup { queries[Current].id }
                 /\ \A id \in DOMAIN results_cache :
                       results_cache'[id] = results_cache[id]
                 /\ Some(results_cache'[queries[Current].id]) = queries'[Current].results
           /\ (pc = "attempt" /\ retry_count = 0 /\ pc' = "db") =>
                 \A j \in 1..Len(queries[Current].depends_on) :
                    queries[Current].depends_on[j] \in DOMAIN results_cache
      ]_vars

\* The text of a step with two different dependencies has been resolved
\* with both in the cache.
C22_Witness ==
    /\ pc = "db"
    /\ retry_count = 0
    /\ Len(queries[Current].depends_on) = 2
    /\ queries[Current].depends_on[1] # queries[Current].depends_on[2]
    /\ Cardinality(DOMAIN results_cache) = 2
    /\ \A j \in 1..2 : queries[Current].depends_on[j] \in DOMAIN results_cache

\* Reading a rendered value back: NULL, a quoted text in which a doubled
\* quote stands for one quote and a single quote ends the text, or a bare
\* literal.
RECURSIVE ReadQuoted(_)
ReadQuoted(chars) ==
    IF chars = << >> THEN << >>
    ELSE IF Head(chars) # "'" THEN << Head(chars) >> \o ReadQuoted(Tail(chars))
    ELSE IF Len(chars) >= 2 /\ chars[2] = "'"
         THEN << "'" >> \o ReadQuoted(Tail(Tail(chars)))
         ELSE << >>

ReadLiteral(chars) ==
    IF chars = << "N", "U", "L", "L" >> THEN PyNone
    ELSE IF chars # << >> /\ Head(chars) = "'"
         THEN IF chars[Len(chars)] = "'" /\ Len(chars) >= 2
                 /\ Len(ReadQuoted(Tail(chars))) + 2
                      + Cardinality({ i \in 1..Len(ReadQuoted(Tail(chars))) :
                                        ReadQuoted(Tail(chars))[i] = "'" }) = Len(chars)
              THEN PyStr(ReadQuoted(Tail(chars)))
              ELSE [ kind |-> "unterminated", chars |-> chars ]
         ELSE PyInt(chars)

\* C23: for a step all of whose dependencies have rows, the resolver returns
\* the step's text prefixed by one WITH definition per depends_on entry, in
\* that order, each named by the dependency id, with that result's columns
\* and one SELECT per row of that result, in the same order and number;
\* every value is rendered so that it reads back as itself (NULL for a null,
\* a quoted text with doubled quotes, other values as they are); for a step
\* without dependencies the text is returned unchanged.
C23_ResolvedTextDefinesDependencies ==
    pc = "resolved" =>
       LET query == queries[Current]
           deps == query.depends_on
       IN  /\ deps = << >> => sql = query.sql
           /\ ( deps # << >>
                /\ \A j \in 1..Len(deps) : results_cache[deps[j]].rows # << >> )
              => /\ Len(sql) = Len(query.sql) + 1
                 /\ Tail(sql) = query.sql
                 /\ sql[1].kind = "with"
                 /\ Len(sql[1].ctes) = Len(deps)
                 /\ \A j \in 1..Len(deps) :
                       LET cte == sql[1].ctes[j]
                           res == results_cache[deps[j]]
                       IN  /\ cte.name = deps[j]
                           /\ cte.columns = res.columns
                           /\ Len(cte.selects) = Len(res.rows)
                           /\ \A r \in 1..Len(res.rows) :
                                 /\ Len(cte.selects[r]) = Len(res.rows[r])
                                 /\ \A c \in 1..Len(res.rows[r]) :
                                       ReadLiteral(cte.selects[r][c]) = res.rows[r][c]

\* Resolved for two different dependencies, the second listed first, one
\* holding a row twice and the other a text with a quote and a null.
C23_Witness ==
    /\ pc = "resolved"
    /\ queries[Current].depends_on = << 2, 1 >>
    /\ results_cache[2].rows = RowsOf(RepeatedRows)
    /\ results_cache[1].rows = RowsOf(StoreRows)
    /\ Len(sql[1].ctes[1].selects) = 2
    /\ sql[1].ctes[1].selects[1] = sql[1].ctes[1].selects[2]
    /\ sql[1].ctes[2].selects[1][1] = << "'", "o", "'", "'", "k", "'" >>
    /\ sql[1].ctes[2].selects[2][1] = << "N", "U", "L", "L" >>

\* The orders of n positions.
OrdersOf(n) ==
    { o \in [ 1..n -> 1..n ] : \A i, j \in 1..n : o[i] = o[j] => i = j }

ValidOrders(qs) == { o \in OrdersOf(Len(qs)) : IsExecutionOrder(qs, o) }

C28_ResolvedOnFirstAttemptOnly ==
    [][ /\ (pc = "attempt" /\ pc' = "db" /\ retry_count = 0)
            => /\ sql' # None
               /\ sql'[Len(sql')] = queries[Current].sql[1]
               /\ Len(sql') = IF \E j \in 1..Len(queries[Current].depends_on) :
                                    results_cache[queries[Current].depends_on[j]].rows # << >>
                              THEN 2 ELSE 1
        /\ (pc = "attempt" /\ pc' = "db" /\ retry_count > 0)
            => sql' = sql /\ sql' \in CorrectedTexts /\ sql' = queries[Current].sql
        /\ (pc = "db" /\ pc' = "fix") => sql' = sql
        /\ (pc = "fix" /\ pc' = "attempt")
            => sql' \in CorrectedTexts /\ queries'[Current].sql = sql'
        /\ \A p \in 1..Len(queries) :
              (pc \in Called /\ queries'[p].sql # queries[p].sql)
                 => pc = "fix" /\ pc' = "attempt" /\ p = Current
        /\ (pc = "constructed" /\ pc' \in Called)
            => \A p \in 1..Len(queries) : queries'[p].sql = OriginalSql(queries[p].id)
      ]_vars

\* A step with a dependency that has rows was corrected and is executed
\* again: the text at the store is the corrector's.
C28_Witness ==
    /\ pc = "db"
    /\ retry_count > 0
    /\ \E j \in 1..Len(queries[Current].depends_on) :
          /\ queries[Current].depends_on[j] \in DOMAIN results_cache
          /\ results_cache[queries[Current].depends_on[j]].rows # << >>
    /\ sql \in CorrectedTexts

\* Where a text defines a relation named id: fragment and place in it.
DefinitionsOf(text, id) ==
    { << f, c >> \in (1..Len(text)) \X (1..MaxEdges + 1) :
         /\ text[f].kind = "with"
         /\ c <= Len(text[f].ctes)
         /\ text[f].ctes[c].name = id }

\* C29: depends_on behaves as a set.  A plan in which a step lists a
\* dependency more than once is constructed and ordered like any other
\* (C1, C3), and the text of the step's first execution defines the
\* relation of each dependency that has rows exactly once.
C29_EachDependencyDefinedOnce ==
    (pc = "db" /\ retry_count = 0) =>
       \A j \in 1..Len(queries[Current].depends_on) :
          LET dep_id == queries[Current].depends_on[j]
          IN  results_cache[dep_id].rows # << >>
              => Cardinality(DefinitionsOf(sql, dep_id)) = 1

\* C30: after a second execute_plan call on an already executed plan every
\* step describes the second run only: it has results iff it is Completed
\* and an error iff it is Failed, and a step the second run did not reach
\* is Pending.
C30_SecondRunOnly ==
    (reexecuted /\ pc = "returned") =>
       /\ \A p \in 1..Len(queries) :
             /\ queries[p].results # None <=> StatusOf(p) = COMPLETED
             /\ queries[p].error # None <=> StatusOf(p) = FAILED
       /\ \A k \in (idx + 1)..Len(execution_order) :
             StatusOf(execution_order[k]) = PENDING

AllKeysFailed == \A i \in 1..Len(_all_api_keys) : _all_api_keys[i] \in _failed_keys

\* C26: rotate_key() marks the key that was current as failed and moves to
\* the next key that is not failed: when it returns, the key that was
\* current at the call is in the failed set; if it returns True the current
\* key is not in the failed set; if it returns False every loaded key is in
\* the failed set; and the index is always within the loaded keys.
C26_RotateMarksAndMoves ==
    /\ _all_api_keys # << >> => _current_key_index \in 0..(Len(_all_api_keys) - 1)
    /\ \A t \in DOMAIN thread :
          (thread[t].pc = "done" /\ thread[t].op = "rotate_key") =>
             /\ _all_api_keys # << >> => KeyAt(thread[t].entry_index) \in _failed_keys
             /\ thread[t].ret = Returns(TRUE) => KeyAt(_current_key_index) \notin _failed_keys
             /\ thread[t].ret = Returns(FALSE) => AllKeysFailed

\* The call of thread t run alone from the given class attributes.
CallAlone(t, index, failed) ==
    IF thread[t].op = "rotate_key"
    THEN rotate_key(_all_api_keys, index, failed)
    ELSE get_current_key(_all_api_keys, index, failed)

\* C27: the key manager is thread-safe.  When the calls of two threads on
\* the freshly loaded keys have both returned, their return values and the
\* index and failed set they leave are those of the two calls run one
\* after the other in some order; and no rotate_key() returns False while
\* a loaded key is not in the failed set.
C27_KeyManagerThreadSafe ==
    /\ \A t \in DOMAIN thread :
          ( /\ thread[t].pc = "done"
            /\ thread[t].op = "rotate_key"
            /\ thread[t].ret = Returns(FALSE) ) => AllKeysFailed
    /\ (\A t \in DOMAIN thread : thread[t].pc = "done") =>
          \E a, b \in DOMAIN thread :
             /\ a # b
             /\ LET first == CallAlone(a, 0, { })
                    second == CallAlone(b, first.index, first.failed)
                IN  /\ thread[a].ret = first.ret
                    /\ thread[b].ret = second.ret
                    /\ _current_key_index = second.index
                    /\ _failed_keys = second.failed

\* How a step ends when its call runs alone and the store and the corrector
\* answer by the answers s, from execution n on, with a budget of retries:
\* its status, the rows or the message, and the number of executions.
RECURSIVE AloneStep(_, _, _)
AloneStep(s, n, budget) ==
    IF s.store[n].kind = "rows"
    THEN [ status |-> COMPLETED, raw |-> s.store[n].raw, error |-> None, execs |-> n ]
    ELSE IF /\ n - 1 < budget
            /\ ContainsNonRetryable(s.store[n].message) = FALSE
            /\ ContainsNoKnownPattern(s.store[n].message) = FALSE
            /\ s.fix[n].kind = "text"
    THEN AloneStep(s, n + 1, budget)
    ELSE [ status |-> FAILED, raw |-> << >>, error |-> Some(s.store[n].message),
           execs |-> n ]

\* The step at place k of the order is run iff all before it complete.
AloneReached(k) ==
    \A k2 \in 1..(k - 1) :
        AloneStep(script[execution_order[k2]], 1, max_retries).status = COMPLETED

\* The step at position p of the plan after the call run alone.
AloneResult(p) ==
    LET k == CHOOSE k2 \in 1..Len(execution_order) : execution_order[k2] = p
        end == AloneStep(script[p], 1, max_retries)
        own == [ QueryStep(queries[p].id) EXCEPT !.depends_on = queries[p].depends_on ]
    IN  IF ~AloneReached(k) THEN own
        ELSE [ own EXCEPT
                 !.status = end.status,
                 !.results = IF end.status = COMPLETED
                             THEN Some(QueryResults(end.raw, queries[p].id)) ELSE None,
                 !.row_count = IF end.status = COMPLETED
                               THEN Some(Len(QueryResults(end.raw, queries[p].id).rows))
                               ELSE None,
                 !.error = end.error,
                 !.sql = IF end.execs > 1 THEN script[p].fix[end.execs - 1].sql
                         ELSE OriginalSql(queries[p].id) ]

\* The results of the completed steps of the call's own plan, by id.
OwnResults ==
    [ id \in { queries[p].id : p \in { q \in 1..Len(queries) : StatusOf(q) = COMPLETED } } |->
        queries[PositionOf(id)].results[1] ]

\* C25: retry counters and the results cache are local to one execute_plan
\* call.  With two calls on two plans, interleaved in any way or one after
\* the other, a call's plan and locals are changed by its own steps only;
\* every text a call hands to the store is the one it hands over when run
\* alone (resolved from the results of its own plan, or the corrector's
\* text); every step ends after as many executions as alone; and when the
\* call returns every step has the status, results, error and sql it has
\* when the plan is executed alone against the same answers.
C25_CallsDoNotInterfere ==
    /\ [](pc = "returned" => \A p \in 1..Len(queries) : queries[p] = AloneResult(p))
    /\ []((pc = "db" /\ exec_count = 1)
            => sql = _resolve_dependencies(queries[Current], OwnResults))
    /\ []((pc = "db" /\ exec_count > 1)
            => sql = script[Current].fix[exec_count - 1].sql)
    /\ [][ /\ parked' # parked => parked' = Some(Frame) /\ Frame' = parked[1]
           /\ ( /\ parked' = parked
                /\ pc = "db"
                /\ queries'[Current].status \in { COMPLETED, FAILED } )
              => exec_count = AloneStep(script[Current], 1, max_retries).execs
         ]_vars

\* The call on the two-step plan is executing its second step, resolved
\* from the rows of its first, while the other call, on a plan with a step
\* of the same id, waits for the corrector.
C25_Witness ==
    /\ pc = "db"
    /\ Len(queries) = 2
    /\ idx = 2
    /\ queries[1].results # None
    /\ queries[1].results[1].rows # << >>
    /\ parked # None
    /\ parked[1].pc = "fix"

====
